---- MODULE Spec2Model ----
(***************************************************************************)
(* A model of the music provider layer of tunestream-backend:              *)
(*   - the provider selection done when routes/musicRoutes.js is loaded,   *)
(*     its POST /switch-mode handler and its facade handlers;              *)
(*   - MusicServiceFactory (services/musicServiceFactory.js);              *)
(*   - the three providers: DemoMusicService, SpotifyService and the       *)
(*     Jamendo/iTunes aggregate MusicService.                              *)
(* Asynchronous functions are modelled down to their awaits on the network:*)
(* a call in flight is the record req, and the reply of the upstream is an *)
(* input of the action that resumes it.                                    *)
(***************************************************************************)
EXTENDS Integers, Sequences, FiniteSets, TLC

VARIABLES
  envDemo,        \* process.env.USE_DEMO_MODE: "unset", "true" or "false"
  clientId,       \* TRUE when SPOTIFY_CLIENT_ID is set
  clientSecret,   \* TRUE when SPOTIFY_CLIENT_SECRET is set
  spotifyLoads,   \* TRUE when require('spotifyService') succeeds
  USE_DEMO_MODE,  \* musicRoutes.js: the constant resolved when the module loads
  musicService,   \* musicRoutes.js: the active provider ("none" before the load)
  serviceInfo,    \* musicRoutes.js: the descriptor of the active provider
  currentService, \* MusicServiceFactory.currentService
  serviceType,    \* MusicServiceFactory.serviceType
  accessToken,    \* SpotifyService.accessToken (NoToken models null)
  tokenExpiry,    \* SpotifyService.tokenExpiry (NoExpiry models null, which
                  \* compares as 0 in tokenExpiry > Date.now())
  now,            \* Date.now(), in seconds
  cache,          \* musicService.js: the NodeCache, key -> entry
  under,          \* the component a behaviour exercises
  req,            \* the asynchronous call in flight
  ret,            \* what the provider operation last called has returned
  resp,           \* the HTTP response to the request last received
  handled,        \* how the handler of that request has ended
  overlap,        \* the calls of makeRequest that overlap, and the tokens issued
  fills,          \* the calls of the cached operations of MusicService that overlap
  USERS_FILE,     \* authRoutes.js: the content of data/users.json
  LIKED_SONGS_FILE, \* the content of data/likedSongs.json
  PLAYLISTS_FILE, \* playlistRoutes.js: the content of data/playlists.json
  auth            \* the requests to authRoutes.js in flight, and those answered

vars == << envDemo, clientId, clientSecret, spotifyLoads, USE_DEMO_MODE,
           musicService, serviceInfo, currentService, serviceType,
           accessToken, tokenExpiry, now, cache, under, req, ret, resp,
           handled, overlap, fills, USERS_FILE, LIKED_SONGS_FILE,
           PLAYLISTS_FILE, auth >>

\* What the actions of one call at a time leave as it is.
fileVars    == << USERS_FILE, LIKED_SONGS_FILE, PLAYLISTS_FILE, auth >>
dataVars    == << fills, fileVars >>
envVars     == << clientId, clientSecret, spotifyLoads, under, overlap, dataVars >>
routeVars   == << USE_DEMO_MODE, musicService, serviceInfo >>
factoryVars == << currentService, serviceType >>
tokenVars   == << accessToken, tokenExpiry >>

(***************************************************************************)
(* Bounds of the model.                                                    *)
(***************************************************************************)
MaxTime   == 7200   \* the clock stops here
MaxUp     == 2      \* most items one upstream reply carries
MaxLimit  == 2      \* largest explicit limit a caller passes
MaxTokens == 2      \* the token endpoint issues tokens 1..MaxTokens
NumCalls  == 2      \* calls of makeRequest that overlap
MaxSongId == 2      \* the songs liked have the ids 1..MaxSongId
ScenarioLimit == 5   \* a limit the demo provider is called with, besides LimitParams
MaxQueryLen == 2     \* longest substring searched for
TickStep  == 3600   \* the clock advances by this much

(***************************************************************************)
(* Program constants.                                                      *)
(***************************************************************************)
stdTTL          == 3600  \* lifetime of a NodeCache entry, seconds
SearchDefault   == 20    \* default limit of search, categories, recommendations
TrendingDefault == 50    \* default limit of trending
PoolSize        == 100   \* demo search filters getTrendingTracks(100)
RecPool         == 50    \* demo recommendations slice getTrendingTracks(50)

DurationBase    == 180   \* demo durations: 180 + Math.floor(Math.random() * 120)
DurationSpread  == 120
ExchangeTimeout == 10000
NoTimeout       == 0
NoToken  == 0
NoExpiry == 0
Omitted  == MaxLimit + 1000   \* a limit argument that is not given

Min(a, b) == IF a < b THEN a ELSE b
Max(a, b) == IF a > b THEN a ELSE b

\* Array.prototype.slice(0, end): a negative end counts from the end of the array.
Slice0(s, end) ==
  LET e == IF end < 0 THEN Max(Len(s) + end, 0) ELSE Min(end, Len(s))
  IN  SubSeq(s, 1, e)

(***************************************************************************)
(* musicRoutes.js: the descriptors assigned to serviceInfo.                *)
(***************************************************************************)
NoInfo == [name |-> "", type |-> "", description |-> "", mode |-> ""]

LoadedDemoInfo ==
  [name |-> "Demo Music Service", type |-> "demo",
   description |-> "Perfect for development and testing - no API keys required!",
   mode |-> "Development"]

LoadedSpotifyInfo ==
  [name |-> "Spotify Web API", type |-> "spotify",
   description |-> "Real-time music data from millions of songs",
   mode |-> "Production"]

FallbackInfo ==
  [name |-> "Demo Music Service (Emergency Fallback)", type |-> "demo-fallback",
   description |-> "Emergency fallback - Primary service unavailable",
   mode |-> "Resilient"]

SwitchedDemoInfo ==
  [name |-> "Demo Music Service", type |-> "demo",
   description |-> "Switched to development mode", mode |-> "Development"]

SwitchedSpotifyInfo ==
  [name |-> "Spotify Web API", type |-> "spotify",
   description |-> "Switched to production mode", mode |-> "Production"]

ValidModes == {"demo", "spotify"}
ModeInputs == {"demo", "spotify", "live", "undefined"}

(***************************************************************************)
(* Strings are sequences of characters, so that toLowerCase, trim and      *)
(* includes are computed and not assumed.                                  *)
(***************************************************************************)
UpperCase == <<"A","B","C","D","E","F","G","H","I","J","K","L","M",
               "N","O","P","Q","R","S","T","U","V","W","X","Y","Z">>
LowerCase == <<"a","b","c","d","e","f","g","h","i","j","k","l","m",
               "n","o","p","q","r","s","t","u","v","w","x","y","z">>

ToLowerChar(c) ==
  IF \E i \in 1..Len(UpperCase) : UpperCase[i] = c
    THEN LowerCase[CHOOSE i \in 1..Len(UpperCase) : UpperCase[i] = c]
    ELSE c

\* String.prototype.toLowerCase
toLowerCase(s) == [i \in 1..Len(s) |-> ToLowerChar(s[i])]

\* String.prototype.includes
includes(s, q) ==
  \E i \in 0..(Len(s) - Len(q)) : SubSeq(s, i + 1, i + Len(q)) = q

\* String.prototype.trim
trim(s) ==
  LET keep == {i \in 1..Len(s) : s[i] # " "}
  IN  IF keep = {} THEN << >>
      ELSE SubSeq(s, CHOOSE i \in keep : \A j \in keep : i <= j,
                     CHOOSE i \in keep : \A j \in keep : i >= j)

(***************************************************************************)
(* demoMusicService.js                                                     *)
(***************************************************************************)
popularSongs == <<
  [title  |-> <<"S","h","a","p","e"," ","o","f"," ","Y","o","u">>,
   artist |-> <<"E","d"," ","S","h","e","e","r","a","n">>,
   album  |-> <<"DIVISION SIGN"," ","(","D","i","v","i","d","e",")">>],
  [title  |-> <<"B","l","i","n","d","i","n","g"," ","L","i","g","h","t","s">>,
   artist |-> <<"T","h","e"," ","W","e","e","k","n","d">>,
   album  |-> <<"A","f","t","e","r"," ","H","o","u","r","s">>],
  [title  |-> <<"W","a","t","e","r","m","e","l","o","n"," ","S","u","g","a","r">>,
   artist |-> <<"H","a","r","r","y"," ","S","t","y","l","e","s">>,
   album  |-> <<"F","i","n","e"," ","L","i","n","e">>],
  [title  |-> <<"G","o","o","d"," ","4"," ","U">>,
   artist |-> <<"O","l","i","v","i","a"," ","R","o","d","r","i","g","o">>,
   album  |-> <<"S","O","U","R">>],
  [title  |-> <<"L","e","v","i","t","a","t","i","n","g">>,
   artist |-> <<"D","u","a"," ","L","i","p","a">>,
   album  |-> <<"F","u","t","u","r","e"," ","N","o","s","t","a","l","g","i","a">>],
  [title  |-> <<"S","t","a","y">>,
   artist |-> <<"T","h","e"," ","K","i","d"," ","L","A","R","O","I">>,
   album  |-> <<"F","*","C","K"," ","L","O","V","E"," ","3">>],
  [title  |-> <<"H","e","a","t"," ","W","a","v","e","s">>,
   artist |-> <<"G","l","a","s","s"," ","A","n","i","m","a","l","s">>,
   album  |-> <<"D","r","e","a","m","l","a","n","d">>],
  [title  |-> <<"A","s"," ","I","t"," ","W","a","s">>,
   artist |-> <<"H","a","r","r","y"," ","S","t","y","l","e","s">>,
   album  |-> <<"H","a","r","r","y","s"," ","H","o","u","s","e">>],
  [title  |-> <<"A","n","t","i","-","H","e","r","o">>,
   artist |-> <<"T","a","y","l","o","r"," ","S","w","i","f","t">>,
   album  |-> <<"M","i","d","n","i","g","h","t","s">>],
  [title  |-> <<"F","l","o","w","e","r","s">>,
   artist |-> <<"M","i","l","e","y"," ","C","y","r","u","s">>,
   album  |-> <<"E","n","d","l","e","s","s"," ","S","u","m","m","e","r"," ","V","a","c","a","t","i","o","n">>],
  [title  |-> <<"U","n","h","o","l","y">>,
   artist |-> <<"S","a","m"," ","S","m","i","t","h">>,
   album  |-> <<"G","l","o","r","i","a">>],
  [title  |-> <<"B","a","d"," ","H","a","b","i","t">>,
   artist |-> <<"S","t","e","v","e"," ","L","a","c","y">>,
   album  |-> <<"G","e","m","i","n","i"," ","R","i","g","h","t","s">>],
  [title  |-> <<"A","b","o","u","t"," ","D","a","m","n"," ","T","i","m","e">>,
   artist |-> <<"L","i","z","z","o">>,
   album  |-> <<"A","b","o","u","t"," ","D","a","m","n"," ","T","i","m","e">>],
  [title  |-> <<"R","u","n","n","i","n","g"," ","U","p"," ","T","h","a","t"," ","H","i","l","l">>,
   artist |-> <<"K","a","t","e"," ","B","u","s","h">>,
   album  |-> <<"H","o","u","n","d","s"," ","o","f"," ","L","o","v","e">>],
  [title  |-> <<"G","l","i","m","p","s","e"," ","o","f"," ","U","s">>,
   artist |-> <<"J","o","j","i">>,
   album  |-> <<"G","l","i","m","p","s","e"," ","o","f"," ","U","s">>],
  [title  |-> <<"L","e","f","t"," ","a","n","d"," ","R","i","g","h","t">>,
   artist |-> <<"C","h","a","r","l","i","e"," ","P","u","t","h">>,
   album  |-> <<"L","e","f","t"," ","a","n","d"," ","R","i","g","h","t">>],
  [title  |-> <<"F","i","r","s","t"," ","C","l","a","s","s">>,
   artist |-> <<"J","a","c","k"," ","H","a","r","l","o","w">>,
   album  |-> <<"C","o","m","e"," ","H","o","m","e"," ","T","h","e"," ","K","i","d","s"," ","M","i","s","s"," ","Y","o","u">>],
  [title  |-> <<"B","r","e","a","k"," ","M","y"," ","S","o","u","l">>,
   artist |-> <<"B","e","y","o","n","c","e ACUTE">>,
   album  |-> <<"R","e","n","a","i","s","s","a","n","c","e">>],
  [title  |-> <<"S","u","n","r","o","o","f">>,
   artist |-> <<"N","i","c","k","y"," ","Y","o","u","r","e">>,
   album  |-> <<"S","u","n","r","o","o","f">>],
  [title  |-> <<"L","a","t","e"," ","N","i","g","h","t"," ","T","a","l","k","i","n","g">>,
   artist |-> <<"H","a","r","r","y"," ","S","t","y","l","e","s">>,
   album  |-> <<"H","a","r","r","y","s"," ","H","o","u","s","e">>]
>>

NumSongs == Len(popularSongs)

categories == << "pop", "rock", "hip-hop", "electronic", "indie", "r-b",
                 "country", "jazz" >>

\* The queries a caller passes.
Qharry  == <<"h","a","r","r","y">>
Qsour   == <<"S","O","U","R">>
Qpadded == <<" ","S","O","U","R"," ">>
Qnone   == <<"z","z">>
Qblank  == <<" "," ">>
Qempty  == << >>
Queries == {Qharry, Qsour, Qpadded, Qnone, Qblank, Qempty}

\* A filter that reads the title only.
SongMatchesTitleOnly(song, query) ==
  includes(toLowerCase(song.title), toLowerCase(query))

\* The filter of searchTracks on one catalog entry.
SongMatches(song, query) ==
  \/ includes(toLowerCase(song.title), toLowerCase(query))
  \/ includes(toLowerCase(song.artist), toLowerCase(query))
  \/ includes(toLowerCase(song.album), toLowerCase(query))

\* A provider is passed a query as it is given or, by GET /search, trimmed.
QueryArgs == Queries \cup {trim(q) : q \in Queries}

\* The track pushed by iteration i of the loop of getTrendingTracks: its
\* duration is 180 + Math.floor(Math.random() * 120), any value from min to
\* max; it is given no source field.
DemoTrack(i) ==
  [id |-> [src |-> "demo", n |-> i + 1], song |-> (i % NumSongs) + 1,
   duration |-> [min |-> DurationBase, max |-> DurationBase + DurationSpread - 1],
   source |-> "undefined"]

DemoGetTrendingTracks(limit) ==
  [k \in 1..Max(limit, 0) |-> DemoTrack(k - 1)]

\* searchTracks, lines 59-64: the pool of 100 tracks, filtered. The filter
\* reads only the catalog entry a track was made of.
FilterTracks(query) ==
  LET allTracks  == DemoGetTrendingTracks(PoolSize)
      hits       == {s \in 1..NumSongs : SongMatches(popularSongs[s], query)}
      Hit(track) == track.song \in hits
  IN  SelectSeq(allTracks, Hit)

\* filteredTracks, tabled for the queries the handlers are given.
FilteredTracks == [query \in QueryArgs |-> FilterTracks(query)]

DemoSearchTracks(query, limit) ==
  LET filteredTracks == IF query \in QueryArgs THEN FilteredTracks[query]
                        ELSE FilterTracks(query)
  IN  [tracks      |-> Slice0(filteredTracks, limit),
       total       |-> Len(filteredTracks),
       hasNext     |-> Len(filteredTracks) > limit,
       hasPrevious |-> FALSE]

DemoGetCategories(limit) ==
  LET all == [k \in 1..Len(categories) |->
                [id |-> [src |-> categories[k], n |-> 0], song |-> 0]]
  IN  Slice0(all, limit)

DemoGetRecommendations(limit) ==
  Slice0(DemoGetTrendingTracks(RecPool), limit)

(***************************************************************************)
(* What a provider operation returns, and the call in flight.              *)
(***************************************************************************)
NoRet ==
  [prov |-> "none", op |-> "none", limit |-> 0, threw |-> FALSE,
   items |-> << >>, total |-> 0, hasNext |-> FALSE, hasPrevious |-> FALSE,
   found |-> FALSE, status |-> "",
   calls |-> 0, anyOk |-> FALSE, anyFailed |-> FALSE, anyItems |-> FALSE,
   jamLimit |-> 0, ituLimit |-> 0, jam |-> << >>, itu |-> << >>,
   jamFailed |-> FALSE, ituFailed |-> FALSE, first |-> "none",
   collected |-> 0, query |-> << >>]

Idle ==
  [op |-> "none", prov |-> "none", via |-> "none", pc |-> "idle",
   lim |-> 0, limit |-> 0, query |-> << >>, genre |-> << >>, id |-> 0,
   rejects |-> FALSE,
   i |-> 0, all |-> << >>,
   calls |-> 0, anyOk |-> FALSE, anyFailed |-> FALSE, anyItems |-> FALSE,
   jamDone |-> FALSE, jamRes |-> << >>, ituDone |-> FALSE, ituRes |-> << >>,
   jamLimit |-> 0, ituLimit |-> 0, jamFailed |-> FALSE, ituFailed |-> FALSE,
   first |-> "none", token |-> 0]

\* An argument that is not given takes the default of the parameter.
Default(arg, dflt) == IF arg = Omitted THEN dflt ELSE arg

\* The result record of the call r: what `more` sets, and the record r keeps
\* of its upstream calls (their number, whether one succeeded, whether one
\* failed, whether one carried an item; for searchSongs, what each of its
\* two requests asked for, whether it failed and which was answered first).
Returns(r, more) ==
  [f \in DOMAIN NoRet |->
     IF f \in DOMAIN more THEN more[f]
     ELSE IF f \in {"prov", "op", "limit", "calls", "anyOk", "anyFailed", "anyItems",
                    "jamLimit", "ituLimit", "jamFailed", "ituFailed", "first",
                    "query"}
     THEN r[f]
     ELSE NoRet[f]]

(***************************************************************************)
(* spotifyService.js                                                       *)
(***************************************************************************)
\* What the upstream puts in a list. k >= 1: a well-formed track (category)
\* of id k; 0: null, or an entry with no id; -1: an entry with an id that
\* lacks the fields formatTrack reads.
Broken  == 0 - 1
Batches ==
  {[k \in 1..n |-> k] : n \in 0..MaxUp} \cup {<< 0 >>, << Broken >>}

NoReply == [kind |-> "none", status |-> 0, items |-> << >>, more |-> FALSE]

\* The replies to axios.get: a body with the expected fields, a body without
\* them, an HTTP error status, or no response at all (network error, timeout).
GetReplies ==
  {[NoReply EXCEPT !.kind = "ok", !.status = 200, !.items = b] : b \in Batches}
  \cup {[NoReply EXCEPT !.kind = "ok", !.status = 200, !.items = b, !.more = TRUE] :
      b \in Batches \ {<< >>, << 0 >>, << Broken >>}}
  \cup {[NoReply EXCEPT !.kind = "malformed", !.status = 200]}
  \cup {[NoReply EXCEPT !.kind = "http", !.status = s] : s \in {401, 429, 500}}
  \cup {[NoReply EXCEPT !.kind = "network"]}

\* The replies to the token exchange (axios.post).
ExchangeReplies ==
  {[ok |-> TRUE, token |-> t, expires_in |-> e] :
      t \in 1..MaxTokens, e \in {TickStep, 2 * TickStep}}
  \cup {[ok |-> FALSE, token |-> NoToken, expires_in |-> 0]}

basicSearches == << "a", "the", "love", "song", "music" >>

\* axios.get throws on every reply but a 2xx.
GetThrows(rep) == rep.kind \in {"http", "network"}

\* formatTrack dereferences artists and album of an entry that has an id.
FormatThrows(items) == \E j \in DOMAIN items : items[j] = Broken

formatTrack(k) == [id |-> [src |-> "", n |-> k], song |-> 0, source |-> "undefined"]

\* items.filter(track => track && track.id).map(formatTrack).filter(Boolean)
FormatAll(items) ==
  LET kept == SelectSeq(items, LAMBDA k : k > 0)
  IN  [j \in 1..Len(kept) |-> formatTrack(kept[j])]

\* The tracks collected, duplicates included.
uniqueTracksKeepsAll(s) == s

\* allTracks.filter((track, index, self) =>
\*    track && self.findIndex(t => t && t.id === track.id) === index)
uniqueTracks(s) ==
  LET F[j \in 0..Len(s)] ==
        IF j = 0 THEN << >>
        ELSE IF \E h \in 1..(j - 1) : s[h].id = s[j].id THEN F[j - 1]
        ELSE Append(F[j - 1], s[j])
  IN  F[Len(s)]

\* getAccessToken, up to its await: TRUE when it throws on missing credentials.
CredentialsMissing == ~clientId \/ ~clientSecret

\* A test of the cache that forgets the expiry.
TokenCachedIgnoresExpiry(tok, exp, t) == tok # NoToken

\* getAccessToken, line 22: the cached token is used.
TokenCached(tok, exp, t) == tok # NoToken /\ exp > t

\* An operation of SpotifyService whose catch passes the error on.
SpotifyEmptyRethrows(r) ==
  Returns(r, [threw |-> TRUE])

\* The catch of every operation of SpotifyService but getTrendingTracks.
SpotifyEmpty(r) ==
  CASE r.op = "searchTracks"    -> Returns(r, [items |-> << >>])
    [] r.op = "getTrackDetails" -> Returns(r, [found |-> FALSE])
    [] r.op = "healthCheck"     -> Returns(r, [status |-> "ERROR"])
    [] OTHER                    -> Returns(r, [items |-> << >>])

\* searchTracks, getCategories, getRecommendations and getTrackDetails once
\* makeRequest has returned or thrown; r counts this call already.
SpotifyOnReply(r, rep) ==
  IF GetThrows(rep) \/ rep.kind = "malformed" THEN SpotifyEmpty(r)
  ELSE CASE r.op = "searchTracks" ->
              IF FormatThrows(rep.items) THEN SpotifyEmpty(r)
              ELSE Returns(r, [items       |-> FormatAll(rep.items),
                               total       |-> Len(rep.items) + (IF rep.more THEN 1 ELSE 0),
                               hasNext     |-> rep.more,
                               hasPrevious |-> FALSE])
         [] r.op = "getCategories" ->
              IF \E j \in DOMAIN rep.items : rep.items[j] < 1 THEN SpotifyEmpty(r)
              ELSE Returns(r, [items |-> [j \in DOMAIN rep.items |->
                                            formatTrack(rep.items[j])]])
         [] r.op = "getRecommendations" ->
              IF FormatThrows(rep.items) THEN SpotifyEmpty(r)
              ELSE Returns(r, [items |-> FormatAll(rep.items)])
         [] OTHER ->   \* getTrackDetails
              IF rep.items = << >> \/ rep.items[1] < 1 THEN SpotifyEmpty(r)
              ELSE Returns(r, [items |-> << formatTrack(rep.items[1]) >>,
                               found |-> TRUE])

\* One iteration of the loop of getTrendingTracks once makeRequest has
\* returned or thrown: the tracks collected, and whether the loop goes on.
TrendingOnReply(r, rep) ==
  LET good   == /\ rep.kind = "ok"
                /\ Len(rep.items) > 0
                /\ ~FormatThrows(rep.items)
      all    == IF good THEN r.all \o FormatAll(rep.items) ELSE r.all
      break  == good /\ Len(all) >= r.limit
  IN  [all |-> all, more |-> ~break /\ r.i < Len(basicSearches)]

\* getTrendingTracks after its loop.
TrendingResult(r, all) ==
  Returns(r, [items |-> Slice0(uniqueTracks(all), r.limit), collected |-> Len(all)])

(***************************************************************************)
(* musicRoutes.js: the responses of the handlers.                          *)
(***************************************************************************)
NoResp ==
  [route |-> "none", status |-> 0, error |-> "", items |-> << >>, count |-> 0,
   limit |-> 0, success |-> FALSE, validModes |-> {}, mode |-> "",
   service |-> "", health |-> "", demoMode |-> FALSE, realTimeData |-> FALSE]

\* How a handler has ended: the responses it has sent, whether an error has
\* left it uncaught, whether its provider call was rejected, whether the
\* request repeats the mode of a switch-mode request just before it, and the
\* req.params.id of a request for a track.
NoHandler ==
  [route |-> "none", sent |-> 0, escaped |-> FALSE, rejected |-> FALSE,
   repeat |-> FALSE, trackId |-> 0]

\* The route that calls each provider operation.
RouteOf(op) ==
  CASE op = "healthCheck"        -> "/health"
    [] op = "searchTracks"       -> "/search"
    [] op = "getTrendingTracks"  -> "/trending"
    [] op = "getCategories"      -> "/categories"
    [] op = "getRecommendations" -> "/recommendations"
    [] OTHER                     -> "/track/:id"

\* The limit a route takes when the query has none.
RouteDefault(op) == IF op = "getTrendingTracks" THEN TrendingDefault ELSE SearchDefault

\* The error field of the payload each catch sends.
CatchError(op) ==
  CASE op = "healthCheck"        -> "Health check failed"
    [] op = "searchTracks"       -> "Search failed"
    [] op = "getTrendingTracks"  -> "Failed to get trending music"
    [] op = "getCategories"      -> "Failed to get categories"
    [] op = "getRecommendations" -> "Failed to get recommendations"
    [] OTHER                     -> "Failed to get track details"

\* The try block of a handler once the provider has returned `result`.
RoutePayload(r, result) ==
  LET base == [NoResp EXCEPT !.route = RouteOf(r.op), !.status = 200,
                             !.service = serviceInfo.type]
  IN  CASE r.op = "healthCheck" ->
             [base EXCEPT !.health = result.status, !.demoMode = USE_DEMO_MODE,
                          !.realTimeData = ~USE_DEMO_MODE]
        [] r.op = "getTrackDetails" ->
             IF result.found
               THEN [base EXCEPT !.items = result.items, !.count = 1]
               ELSE [base EXCEPT !.status = 404, !.error = "Track not found"]
        [] OTHER ->
             [base EXCEPT !.items = result.items, !.count = Len(result.items),
                          !.limit = r.limit]

\* A handler whose catch passes the error on instead of answering.
RouteCatchRethrows(r) ==
  [resp |-> resp, sent |-> 0, escaped |-> TRUE]

\* The catch block of a handler: the uniform error payload.
RouteCatch(r) ==
  [resp    |-> [NoResp EXCEPT !.route = RouteOf(r.op), !.status = 500,
                              !.error = CatchError(r.op),
                              !.service = serviceInfo.type],
   sent    |-> 1,
   escaped |-> FALSE]

\* A handler from the return (or the rejection) of its provider call on.
RouteReturns(r, result) ==
  LET out == IF r.rejects THEN RouteCatch(r)
             ELSE [resp |-> RoutePayload(r, result), sent |-> 1, escaped |-> FALSE]
  IN  /\ resp' = out.resp
      /\ handled' = [NoHandler EXCEPT !.route = RouteOf(r.op), !.sent = out.sent,
                                      !.escaped = out.escaped,
                                      !.rejected = r.rejects,
                                      !.trackId = r.id]

(***************************************************************************)
(* musicServiceFactory.js                                                  *)
(***************************************************************************)
loadDemoService(reason) ==
  /\ currentService' = "demo"
  /\ serviceType' = IF reason = "fallback" THEN "demo-fallback" ELSE "demo"

\* trySpotifyService after the health check, inside the try of createService.
FactoryReturns(health) ==
  IF health.status = "OK"
    THEN currentService' = "spotify" /\ serviceType' = "spotify"
    ELSE loadDemoService("fallback")

(***************************************************************************)
(* The end of a provider operation: its caller goes on with the result.    *)
(***************************************************************************)
Complete(r, result) ==
  /\ ret' = result
  /\ req' = Idle
  /\ CASE r.via = "route"   -> RouteReturns(r, result) /\ UNCHANGED factoryVars
       [] r.via = "factory" -> FactoryReturns(result) /\ UNCHANGED << resp, handled >>
       [] OTHER             -> UNCHANGED << factoryVars, resp, handled >>

(***************************************************************************)
(* demoMusicService.js: every operation runs without an await.             *)
(***************************************************************************)
DemoCall(r) ==
  CASE r.op = "healthCheck"        -> Returns(r, [status |-> "OK"])
    [] r.op = "searchTracks"       ->
         LET s == DemoSearchTracks(r.query, r.limit)
         IN  Returns(r, [items |-> s.tracks, total |-> s.total,
                         hasNext |-> s.hasNext, hasPrevious |-> s.hasPrevious])
    [] r.op = "getTrendingTracks"  -> Returns(r, [items |-> DemoGetTrendingTracks(r.limit)])
    [] r.op = "getCategories"      -> Returns(r, [items |-> DemoGetCategories(r.limit)])
    [] OTHER                       -> Returns(r, [items |-> DemoGetRecommendations(r.limit)])

(***************************************************************************)
(* spotifyService.js: an operation up to its first await on the network.   *)
(***************************************************************************)
\* The state of the call after getAccessToken's test of the cache.
AwaitRequest(r, tok, exp) ==
  [r EXCEPT !.pc = IF TokenCached(tok, exp, now) THEN "get" ELSE "exchange",
            !.token = IF TokenCached(tok, exp, now) THEN tok ELSE NoToken]

SpotifyCall(r) ==
  IF CredentialsMissing
    THEN \* getAccessToken throws at once, in every makeRequest
         LET n  == IF r.op = "getTrendingTracks" THEN Len(basicSearches) ELSE 1
             r2 == [r EXCEPT !.calls = n, !.anyFailed = TRUE]
         IN  /\ Complete(r2, IF r.op = "getTrendingTracks"
                               THEN TrendingResult(r2, << >>)
                               ELSE SpotifyEmpty(r2))
             /\ UNCHANGED tokenVars
    ELSE IF r.op = "healthCheck" /\ TokenCached(accessToken, tokenExpiry, now)
    THEN /\ Complete(r, Returns(r, [status |-> "OK"]))
         /\ UNCHANGED tokenVars
    ELSE /\ req' = AwaitRequest([r EXCEPT !.calls = 1, !.i = 1],
                                accessToken, tokenExpiry)
         /\ ret' = NoRet
         /\ resp' = NoResp
         /\ handled' = NoHandler
         /\ UNCHANGED << tokenVars, factoryVars >>

\* getAccessToken resumes with the reply of the token endpoint.
ExchangeReply(rep) ==
  /\ req.pc = "exchange"
  /\ IF rep.ok
       THEN /\ accessToken' = rep.token
            /\ tokenExpiry' = now + rep.expires_in
            /\ IF req.op = "healthCheck"
                 THEN Complete(req, Returns(req, [status |-> "OK"]))
                 ELSE /\ req' = [req EXCEPT !.pc = "get", !.token = rep.token]
                      /\ UNCHANGED << factoryVars, ret, resp, handled >>
       ELSE \* getAccessToken throws, and makeRequest with it
            LET r2 == [req EXCEPT !.anyFailed = TRUE]
            IN  /\ UNCHANGED tokenVars
                /\ IF req.op = "getTrendingTracks"
                     THEN IF req.i < Len(basicSearches)
                            THEN /\ req' = AwaitRequest(
                                             [r2 EXCEPT !.i = @ + 1, !.calls = @ + 1],
                                             accessToken, tokenExpiry)
                                 /\ UNCHANGED << factoryVars, ret, resp, handled >>
                            ELSE Complete(r2, TrendingResult(r2, r2.all))
                     ELSE Complete(r2, SpotifyEmpty(r2))
  /\ UNCHANGED << envDemo, envVars, routeVars, now, cache >>

\* The reply makes the operation fail: no response, an error status, a body
\* without the fields the operation reads.
ReplyFailed(op, rep) ==
  \/ GetThrows(rep)
  \/ rep.kind = "malformed"
  \/ IF op = "getCategories" THEN \E j \in DOMAIN rep.items : rep.items[j] < 1
     ELSE FormatThrows(rep.items)

\* A catch of makeRequest that never clears the token.
UnauthorizedIgnored(rep) == FALSE

\* makeRequest, line 78: error.response?.status === 401
Unauthorized(rep) == rep.kind = "http" /\ rep.status = 401

\* makeRequest resumes with the reply to axios.get.
GetReply(rep) ==
  /\ req.pc = "get"
  /\ LET unauthorized == Unauthorized(rep)
         tok == IF unauthorized THEN NoToken ELSE accessToken
         exp == IF unauthorized THEN NoExpiry ELSE tokenExpiry
         bad == ReplyFailed(req.op, rep)
         r2  == [req EXCEPT !.anyFailed = @ \/ bad,
                            !.anyOk = @ \/ ~bad,
                            !.anyItems = @ \/ (rep.kind = "ok" /\ rep.items # << >>)]
     IN  /\ accessToken' = tok
         /\ tokenExpiry' = exp
         /\ IF req.op = "getTrendingTracks"
              THEN LET t == TrendingOnReply(r2, rep)
                   IN  IF t.more
                         THEN /\ req' = AwaitRequest(
                                          [r2 EXCEPT !.all = t.all, !.i = @ + 1,
                                                     !.calls = @ + 1],
                                          tok, exp)
                              /\ UNCHANGED << factoryVars, ret, resp, handled >>
                         ELSE Complete(r2, TrendingResult(r2, t.all))
              ELSE Complete(r2, SpotifyOnReply(r2, rep))
  /\ UNCHANGED << envDemo, envVars, routeVars, now, cache >>

(***************************************************************************)
(* musicRoutes.js: the load of the module and the handlers.                *)
(***************************************************************************)
LimitParams == ((0 - 1)..MaxLimit) \cup {Omitted}
TrackIds    == 1..MaxUp

\* Lines 5-55: the provider chosen when the module is loaded.
LoadRoutes ==
  /\ under = "routes"
  /\ musicService = "none"
  /\ USE_DEMO_MODE' = (envDemo = "true")
  /\ IF envDemo = "true"
       THEN musicService' = "demo" /\ serviceInfo' = LoadedDemoInfo
       ELSE IF spotifyLoads
       THEN musicService' = "spotify" /\ serviceInfo' = LoadedSpotifyInfo
       ELSE musicService' = "demo" /\ serviceInfo' = FallbackInfo
  /\ UNCHANGED << envDemo, envVars, factoryVars, tokenVars, now, cache,
                  req, ret, resp, handled >>

\* A switch-mode that sets the environment flag before it validates the mode.
SwitchModeEnvFirst(mode) ==
  /\ musicService # "none"
  /\ req.pc = "idle"
  /\ envDemo' = IF mode = "demo" THEN "true" ELSE "false"
  /\ resp' = [NoResp EXCEPT !.route = "/switch-mode", !.mode = mode,
                            !.status = IF mode \in ValidModes THEN 200 ELSE 400,
                            !.error = IF mode \in ValidModes THEN "" ELSE "Invalid mode",
                            !.validModes = IF mode \in ValidModes THEN {} ELSE ValidModes,
                            !.success = mode \in ValidModes,
                            !.service = IF mode \in ValidModes THEN mode
                                        ELSE serviceInfo.type]
  /\ musicService' = IF mode \in ValidModes THEN mode ELSE musicService
  /\ serviceInfo' = IF mode = "demo" THEN SwitchedDemoInfo
                    ELSE IF mode = "spotify" THEN SwitchedSpotifyInfo
                    ELSE serviceInfo
  /\ handled' = [NoHandler EXCEPT !.route = "/switch-mode", !.sent = 1,
                     !.repeat = (resp.route = "/switch-mode" /\ resp.mode = mode)]
  /\ ret' = NoRet
  /\ UNCHANGED << envVars, USE_DEMO_MODE, factoryVars, tokenVars, now, cache, req >>

\* A switch-mode that refuses to switch to the mode that is active already.
SwitchModeRefusesSame(mode) ==
  /\ musicService # "none"
  /\ req.pc = "idle"
  /\ IF mode \in ValidModes /\ mode # musicService
       THEN /\ envDemo' = IF mode = "demo" THEN "true" ELSE "false"
            /\ musicService' = mode
            /\ serviceInfo' = IF mode = "demo" THEN SwitchedDemoInfo
                              ELSE SwitchedSpotifyInfo
            /\ resp' = [NoResp EXCEPT !.route = "/switch-mode", !.mode = mode,
                                      !.status = 200, !.success = TRUE,
                                      !.service = mode]
       ELSE /\ resp' = [NoResp EXCEPT !.route = "/switch-mode", !.mode = mode,
                                      !.status = 400, !.error = "Invalid mode",
                                      !.validModes = ValidModes,
                                      !.service = serviceInfo.type]
            /\ UNCHANGED << envDemo, musicService, serviceInfo >>
  /\ handled' = [NoHandler EXCEPT !.route = "/switch-mode", !.sent = 1,
                     !.repeat = (resp.route = "/switch-mode" /\ resp.mode = mode)]
  /\ ret' = NoRet
  /\ UNCHANGED << envVars, USE_DEMO_MODE, factoryVars, tokenVars, now, cache, req >>

\* A switch-mode that writes the descriptor before it loads the provider: a
\* load that fails leaves the new descriptor with the old provider.
SwitchModeInfoFirst(mode) ==
  /\ musicService # "none"
  /\ req.pc = "idle"
  /\ LET base == [NoResp EXCEPT !.route = "/switch-mode", !.mode = mode]
     IN  IF mode \notin ValidModes
           THEN /\ resp' = [base EXCEPT !.status = 400, !.error = "Invalid mode",
                                        !.validModes = ValidModes,
                                        !.service = serviceInfo.type]
                /\ UNCHANGED << envDemo, musicService, serviceInfo >>
           ELSE /\ envDemo' = IF mode = "demo" THEN "true" ELSE "false"
                /\ serviceInfo' = IF mode = "demo" THEN SwitchedDemoInfo
                                  ELSE SwitchedSpotifyInfo
                /\ IF mode = "demo" \/ spotifyLoads
                     THEN /\ musicService' = mode
                          /\ resp' = [base EXCEPT !.status = 200, !.success = TRUE,
                                                  !.service = mode]
                     ELSE /\ resp' = [base EXCEPT !.status = 500,
                                                  !.error = "Mode switch failed",
                                                  !.service = mode]
                          /\ UNCHANGED musicService
  /\ handled' = [NoHandler EXCEPT !.route = "/switch-mode", !.sent = 1,
                     !.repeat = (resp.route = "/switch-mode" /\ resp.mode = mode)]
  /\ ret' = NoRet
  /\ UNCHANGED << envVars, USE_DEMO_MODE, factoryVars, tokenVars, now, cache, req >>

\* POST /switch-mode
SwitchMode(mode) ==
  /\ musicService # "none"
  /\ req.pc = "idle"
  /\ LET base == [NoResp EXCEPT !.route = "/switch-mode", !.mode = mode]
     IN  IF mode \notin ValidModes
           THEN /\ resp' = [base EXCEPT !.status = 400, !.error = "Invalid mode",
                                        !.validModes = ValidModes,
                                        !.service = serviceInfo.type]
                /\ UNCHANGED << envDemo, musicService, serviceInfo >>
           ELSE /\ envDemo' = IF mode = "demo" THEN "true" ELSE "false"
                /\ IF mode = "demo"
                     THEN /\ musicService' = "demo"
                          /\ serviceInfo' = SwitchedDemoInfo
                          /\ resp' = [base EXCEPT !.status = 200, !.success = TRUE,
                                                  !.service = "demo"]
                     ELSE IF spotifyLoads
                     THEN /\ musicService' = "spotify"
                          /\ serviceInfo' = SwitchedSpotifyInfo
                          /\ resp' = [base EXCEPT !.status = 200, !.success = TRUE,
                                                  !.service = "spotify"]
                     ELSE \* require throws: the inner catch
                          /\ resp' = [base EXCEPT !.status = 500,
                                                  !.error = "Mode switch failed",
                                                  !.service = serviceInfo.type]
                          /\ UNCHANGED << musicService, serviceInfo >>
  /\ handled' = [NoHandler EXCEPT !.route = "/switch-mode", !.sent = 1,
                     !.repeat = (resp.route = "/switch-mode" /\ resp.mode = mode)]
  /\ ret' = NoRet
  /\ UNCHANGED << envVars, USE_DEMO_MODE, factoryVars, tokenVars, now, cache, req >>

\* typeof musicService.getTrackDetails === 'function'
HasGetTrackDetails(prov) == prov = "spotify"

\* A facade that answers not-found for a provider without getTrackDetails.
TrackPlaceholderNotFound(r) ==
  Returns(r, [found |-> FALSE])

\* GET /track/:id, the track made up for a provider without getTrackDetails.
TrackPlaceholder(r) ==
  Returns(r, [items |-> << [id |-> [src |-> "", n |-> r.id], song |-> 0,
                            source |-> "undefined"] >>,
              found |-> TRUE])

\* A handler from its entry to the first await on the network of the
\* provider operation it calls.
RouteCall(r) ==
  /\ musicService # "none"
  /\ req.pc = "idle"
  /\ IF r.op = "getTrackDetails" /\ ~HasGetTrackDetails(r.prov)
       THEN /\ RouteReturns([r EXCEPT !.rejects = FALSE], TrackPlaceholder(r))
            /\ ret' = NoRet
            /\ UNCHANGED << req, factoryVars, tokenVars >>
       ELSE IF r.prov = "demo"
       THEN Complete(r, DemoCall(r)) /\ UNCHANGED tokenVars
       ELSE SpotifyCall(r)
  /\ UNCHANGED << envDemo, envVars, routeVars, now, cache >>

RouteRequest(op, lim, rejects) ==
  [Idle EXCEPT !.op = op, !.prov = musicService, !.via = "route", !.lim = lim,
               !.limit = Default(lim, RouteDefault(op)), !.rejects = rejects]

\* GET /health
Health(rejects) == RouteCall(RouteRequest("healthCheck", Omitted, rejects))

\* GET /search; q = '' stands for a missing q as well.
Search(q, lim, rejects) ==
  IF q = << >> \/ trim(q) = << >>
    THEN /\ musicService # "none"
         /\ req.pc = "idle"
         /\ resp' = [NoResp EXCEPT !.route = "/search", !.status = 400,
                       !.error = "Search query is required and cannot be empty"]
         /\ handled' = [NoHandler EXCEPT !.route = "/search", !.sent = 1]
         /\ ret' = NoRet
         /\ UNCHANGED << envDemo, envVars, routeVars, factoryVars, tokenVars,
                         now, cache, req >>
    ELSE RouteCall([RouteRequest("searchTracks", lim, rejects)
                      EXCEPT !.query = trim(q)])

\* GET /trending
Trending(lim, rejects) ==
  RouteCall(RouteRequest("getTrendingTracks", lim, rejects))

\* GET /categories
Categories(lim, rejects) ==
  RouteCall(RouteRequest("getCategories", lim, rejects))

\* GET /recommendations
Recommendations(lim, rejects) ==
  RouteCall(RouteRequest("getRecommendations", lim, rejects))

\* GET /track/:id
TrackDetails(id, rejects) ==
  RouteCall([RouteRequest("getTrackDetails", Omitted, rejects) EXCEPT !.id = id])

\* GET /service-info: the handler has no await and no catch.
GetServiceInfo ==
  /\ musicService # "none"
  /\ req.pc = "idle"
  /\ resp' = [NoResp EXCEPT !.route = "/service-info", !.status = 200,
                            !.service = serviceInfo.type,
                            !.demoMode = USE_DEMO_MODE]
  /\ handled' = [NoHandler EXCEPT !.route = "/service-info", !.sent = 1]
  /\ ret' = NoRet
  /\ UNCHANGED << envDemo, envVars, routeVars, factoryVars, tokenVars, now,
                  cache, req >>

(***************************************************************************)
(* musicServiceFactory.js: createService                                   *)
(***************************************************************************)
createService ==
  /\ under = "factory"
  /\ req.pc = "idle"
  /\ IF envDemo = "true"
       THEN /\ loadDemoService("requested")
            /\ UNCHANGED << tokenVars, req, ret, resp, handled >>
       ELSE IF ~spotifyLoads
       THEN /\ loadDemoService("fallback")
            /\ UNCHANGED << tokenVars, req, ret, resp, handled >>
       ELSE SpotifyCall([Idle EXCEPT !.op = "healthCheck", !.prov = "spotify",
                                     !.via = "factory"])
  /\ UNCHANGED << envDemo, envVars, routeVars, now, cache >>

\* Time passes; the periodic check of NodeCache deletes the expired entries.
Tick ==
  /\ now + TickStep <= MaxTime
  /\ now' = now + TickStep
  /\ cache' = [key \in {k \in DOMAIN cache : cache[k].exp >= now'} |-> cache[key]]
  /\ UNCHANGED << envDemo, envVars, routeVars, factoryVars, tokenVars,
                  req, ret, resp, handled >>

(***************************************************************************)
(* musicService.js: the aggregate of Jamendo and iTunes, and its cache.    *)
(***************************************************************************)
\* The replies of Jamendo and of iTunes: a list of results, none of which
\* lacks its fields, a body without results, an error status, no response.
AggReplies ==
  {rep \in GetReplies : ~rep.more /\ rep.items # << Broken >> /\ rep.status # 401}

\* results.map(track => ...) reads the fields of each entry: a null entry throws.
MapThrows(rep) ==
  \/ GetThrows(rep)
  \/ rep.kind = "malformed"
  \/ \E j \in DOMAIN rep.items : rep.items[j] = 0

\* The songs made of the results; prefix is what the id is prefixed with.
MapResults(rep, prefix) ==
  [j \in DOMAIN rep.items |->
     [id |-> [src |-> prefix, n |-> rep.items[j]], song |-> 0,
      source |-> IF prefix = "itunes" THEN "itunes" ELSE "jamendo"]]

\* Math.ceil(limit * 0.7) and Math.ceil(limit * 0.3), share in tenths: the
\* product in doubles rounds up to the same integer as the exact one for
\* every limit up to 2000.
CeilShare(limit, share) == (limit * share + 9) \div 10

getFallbackSongs ==
  << [id |-> [src |-> "fallback", n |-> 1], song |-> 0, source |-> "fallback"] >>

\* The genres a caller passes: a tag, and a tag that ends as a key does.
Rock     == <<"r","o","c","k">>
RockOne  == <<"r","o","c","k","_","1">>
TrendingWord == <<"t","r","e","n","d","i","n","g">>
Genres   == {Rock, RockOne, TrendingWord}

DigitChars == <<"0","1","2","3","4","5","6","7","8","9">>

\* A number in a template literal: its decimal digits, after "-" below zero.
RECURSIVE NumberToString(_)
NumberToString(n) ==
  IF n < 0 THEN <<"-">> \o NumberToString(0 - n)
  ELSE IF n < 10 THEN << DigitChars[n + 1] >>
  ELSE NumberToString(n \div 10) \o << DigitChars[(n % 10) + 1] >>

\* A cache key that leaves the limit out.
CacheKeyIgnoresLimit(r) ==
  IF r.op = "getTrendingSongs" THEN TrendingWord \o <<"_">>
  ELSE <<"g","e","n","r","e","_">> \o r.genre \o <<"_">>

\* `trending_${limit}` and `genre_${genre}_${limit}`
CacheKey(r) ==
  IF r.op = "getTrendingSongs" THEN TrendingWord \o <<"_">> \o NumberToString(r.limit)
  ELSE <<"g","e","n","r","e","_">> \o r.genre \o <<"_">> \o NumberToString(r.limit)

\* cache.get(key): the value of an entry that has not expired
CacheHit(key) == key \in DOMAIN cache /\ cache[key].exp >= now

\* cache.set(key, songs)
CacheSet(key, songs) ==
  [k \in DOMAIN cache \cup {key} |->
     IF k = key THEN [val |-> songs, exp |-> now + stdTTL] ELSE cache[k]]

\* A call of an operation of MusicService, up to its await on the network.
AggregateCall(r) ==
  IF r.op = "searchSongs"
    THEN \* searchJamendo and searchItunes each run to their axios.get
         \* before Promise.all is awaited
         /\ req' = [r EXCEPT !.pc = "fanout", !.calls = 2,
                             !.jamLimit = CeilShare(r.limit, 7),
                             !.ituLimit = CeilShare(r.limit, 3)]
         /\ ret' = NoRet
         /\ UNCHANGED cache
    ELSE IF CacheHit(CacheKey(r))
    THEN /\ ret' = Returns(r, [items |-> cache[CacheKey(r)].val])
         /\ UNCHANGED << req, cache >>
    ELSE /\ req' = [r EXCEPT !.pc = "jamendo", !.calls = 1]
         /\ ret' = NoRet
         \* an expired entry is deleted by the get that finds it
         /\ cache' = [k \in DOMAIN cache \ {CacheKey(r)} |-> cache[k]]

\* The record of one more upstream reply in the call r.
Noted(r, rep) ==
  [r EXCEPT !.anyFailed = @ \/ MapThrows(rep),
            !.anyOk = @ \/ ~MapThrows(rep),
            !.anyItems = @ \/ (rep.kind = "ok" /\ rep.items # << >>)]

\* searchSongs returning what has arrived without a slice.
JoinSearchNoSlice(r) ==
  Returns(r, [items |-> r.jamRes \o r.ituRes, jam |-> r.jamRes, itu |-> r.ituRes])

\* searchSongs without the catch of its two searches: one failure empties all.
JoinSearchFailsTogether(r) ==
  Returns(r, [items |-> IF r.jamFailed \/ r.ituFailed THEN << >>
                        ELSE Slice0(r.jamRes \o r.ituRes, r.limit),
              jam |-> r.jamRes, itu |-> r.ituRes])

\* searchSongs joining its two results in the order of their arrival.
JoinSearchArrivalOrder(r) ==
  Returns(r, [items |-> Slice0(IF r.first = "itunes" THEN r.ituRes \o r.jamRes
                               ELSE r.jamRes \o r.ituRes, r.limit),
              jam |-> r.jamRes, itu |-> r.ituRes])

\* searchSongs after Promise.all
JoinSearch(r) ==
  Returns(r, [items |-> Slice0(r.jamRes \o r.ituRes, r.limit),
              jam |-> r.jamRes, itu |-> r.ituRes])

\* Jamendo answers: searchJamendo inside searchSongs, or the request of
\* getTrendingSongs or getSongsByGenre.
JamendoReply(rep) ==
  /\ \/ req.pc = "fanout" /\ ~req.jamDone
     \/ req.pc = "jamendo"
  /\ LET r2 == Noted(req, rep)
     IN  IF req.pc = "fanout"
           THEN LET r3 == [r2 EXCEPT !.jamDone = TRUE,
                                     !.jamFailed = MapThrows(rep),
                                     !.first = IF @ = "none" THEN "jamendo" ELSE @,
                                     !.jamRes = IF MapThrows(rep) THEN << >>
                                                ELSE MapResults(rep, "jamendo")]
                IN  /\ IF r3.ituDone
                         THEN ret' = JoinSearch(r3) /\ req' = Idle
                         ELSE ret' = ret /\ req' = r3
                    /\ UNCHANGED cache
           ELSE /\ req' = Idle
                /\ IF MapThrows(rep)
                     THEN /\ ret' = Returns(r2, [items |->
                                       IF req.op = "getTrendingSongs"
                                         THEN getFallbackSongs ELSE << >>])
                          /\ UNCHANGED cache
                     ELSE /\ ret' = Returns(r2, [items |-> MapResults(rep, "")])
                          /\ cache' = CacheSet(CacheKey(req), MapResults(rep, ""))
  /\ UNCHANGED << envDemo, envVars, routeVars, factoryVars, tokenVars, now,
                  resp, handled >>

\* iTunes answers searchItunes inside searchSongs.
ItunesReply(rep) ==
  /\ req.pc = "fanout" /\ ~req.ituDone
  /\ LET r3 == [Noted(req, rep) EXCEPT !.ituDone = TRUE,
                                       !.ituFailed = MapThrows(rep),
                                       !.first = IF @ = "none" THEN "itunes" ELSE @,
                                       !.ituRes = IF MapThrows(rep) THEN << >>
                                                  ELSE MapResults(rep, "itunes")]
     IN  IF r3.jamDone
           THEN ret' = JoinSearch(r3) /\ req' = Idle
           ELSE ret' = ret /\ req' = r3
  /\ UNCHANGED << envDemo, envVars, routeVars, factoryVars, tokenVars, now, cache,
                  resp, handled >>

(***************************************************************************)
(* The providers called on their own.                                      *)
(***************************************************************************)
DemoOps      == {"healthCheck", "searchTracks", "getTrendingTracks",
                 "getCategories", "getRecommendations"}
SpotifyOps   == DemoOps \cup {"getTrackDetails"}
AggregateOps == {"searchSongs", "getTrendingSongs", "getSongsByGenre"}

\* The default of the limit parameter of each operation.
ParamDefault(op) ==
  IF op = "getTrendingTracks" THEN TrendingDefault ELSE SearchDefault

ProviderRequest(prov, op, lim) ==
  [Idle EXCEPT !.op = op, !.prov = prov, !.via = "direct", !.lim = lim,
               !.limit = Default(lim, ParamDefault(op))]

DemoDirect(op, q, lim) ==
  /\ under = "demo"
  /\ Complete([ProviderRequest("demo", op, lim) EXCEPT !.query = q],
              DemoCall([ProviderRequest("demo", op, lim) EXCEPT !.query = q]))
  /\ UNCHANGED << envDemo, envVars, routeVars, tokenVars, now, cache >>

SpotifyDirect(op, lim, id) ==
  /\ under = "spotify"
  /\ req.pc = "idle"
  /\ SpotifyCall([ProviderRequest("spotify", op, lim) EXCEPT !.id = id])
  /\ UNCHANGED << envDemo, envVars, routeVars, now, cache >>

\* searchSongs does not touch the cache, and the two cached operations make
\* no search: behaviours exercise the one or the others.
AggregateDirect(op, lim) ==
  /\ under = IF op = "searchSongs" THEN "search" ELSE "aggregate"
  /\ req.pc = "idle"
  /\ AggregateCall([ProviderRequest("aggregate", op, lim) EXCEPT !.genre = Rock])
  /\ UNCHANGED << envDemo, envVars, routeVars, factoryVars, tokenVars, now,
                  resp, handled >>

(***************************************************************************)
(* The files and the calls that the music routes and the providers called  *)
(* one at a time leave alone.                                              *)
(***************************************************************************)
NoFills == << >>
NoAuth  == << >>

InitData ==
  /\ fills = NoFills
  /\ USERS_FILE = << >>
  /\ LIKED_SONGS_FILE = << >>
  /\ PLAYLISTS_FILE = << >>
  /\ auth = NoAuth

(***************************************************************************)
(* spotifyService.js: calls of makeRequest that overlap.                   *)
(***************************************************************************)
Callers == 1..NumCalls

\* A call of makeRequest: where it waits, and the token getAccessToken has
\* returned to it.
NoCall == [pc |-> "idle", token |-> NoToken]

\* calls: the calls; last: the token and the expiry of the last exchange that
\* succeeded; tokens: the tokens the endpoint has issued.
NoOverlap ==
  [calls |-> [c \in Callers |-> NoCall],
   last  |-> << NoToken, NoExpiry >>,
   tokens |-> {}]

\* A 401 that clears the token and leaves its expiry.
ClearedTokenOnly(exp) == << NoToken, exp >>

\* makeRequest, lines 80-81
Cleared(exp) == << NoToken, NoExpiry >>

\* makeRequest is called: getAccessToken returns the cached token, or awaits
\* the token endpoint.
makeRequest(c) ==
  /\ under = "overlap"
  /\ overlap.calls[c].pc = "idle"
  /\ ~CredentialsMissing
  /\ overlap' = [overlap EXCEPT !.calls[c] =
                    IF TokenCached(accessToken, tokenExpiry, now)
                      THEN [pc |-> "get", token |-> accessToken]
                      ELSE [pc |-> "exchange", token |-> NoToken]]
  /\ UNCHANGED << envDemo, clientId, clientSecret, spotifyLoads, under, routeVars,
                  factoryVars, tokenVars, now, cache, req, ret, resp, handled,
                  dataVars >>

\* getAccessToken of the call c resumes with the reply of the token endpoint.
getAccessToken(c, rep) ==
  /\ overlap.calls[c].pc = "exchange"
  /\ IF rep.ok
       THEN /\ accessToken' = rep.token
            /\ tokenExpiry' = now + rep.expires_in
            /\ overlap' = [overlap EXCEPT
                             !.calls[c] = [pc |-> "get", token |-> rep.token],
                             !.last = << rep.token, now + rep.expires_in >>,
                             !.tokens = @ \cup {rep.token}]
       ELSE /\ overlap' = [overlap EXCEPT !.calls[c] = NoCall]
            /\ UNCHANGED tokenVars
  /\ UNCHANGED << envDemo, clientId, clientSecret, spotifyLoads, under, routeVars,
                  factoryVars, now, cache, req, ret, resp, handled, dataVars >>

\* makeRequest of the call c resumes with the reply to axios.get.
makeRequestResumes(c, rep) ==
  /\ overlap.calls[c].pc = "get"
  /\ overlap' = [overlap EXCEPT !.calls[c] = NoCall]
  /\ IF Unauthorized(rep)
       THEN /\ accessToken' = Cleared(tokenExpiry)[1]
            /\ tokenExpiry' = Cleared(tokenExpiry)[2]
       ELSE UNCHANGED tokenVars
  /\ UNCHANGED << envDemo, clientId, clientSecret, spotifyLoads, under, routeVars,
                  factoryVars, now, cache, req, ret, resp, handled, dataVars >>

InitOverlap ==
  /\ under = "overlap"
  /\ envDemo = "unset"
  /\ clientId = TRUE
  /\ clientSecret = TRUE
  /\ spotifyLoads = TRUE
  /\ USE_DEMO_MODE = FALSE
  /\ musicService = "none"
  /\ serviceInfo = NoInfo
  /\ currentService = "none"
  /\ serviceType = "none"
  /\ accessToken = NoToken
  /\ tokenExpiry = NoExpiry
  /\ now = 0
  /\ cache = << >>
  /\ req = Idle
  /\ ret = NoRet
  /\ resp = NoResp
  /\ handled = NoHandler
  /\ overlap = NoOverlap
  /\ InitData

NextOverlap ==
  \/ \E c \in Callers : makeRequest(c)
  \/ \E c \in Callers, rep \in ExchangeReplies : getAccessToken(c, rep)
  \/ \E c \in Callers, rep \in GetReplies : makeRequestResumes(c, rep)
  \/ Tick

SpecOverlap == InitOverlap /\ [][NextOverlap]_vars

\* The limits the aggregate is called with: the smallest and the largest
\* (each limit is a cache key of its own).
AggregateLimits == {1, MaxLimit}

InitProviders ==
  /\ under \in {"demo", "spotify", "aggregate", "search"}
  /\ envDemo = "unset"
  /\ clientId \in BOOLEAN
  /\ clientSecret \in BOOLEAN
  /\ under # "spotify" => clientId /\ clientSecret
  /\ spotifyLoads = TRUE
  /\ USE_DEMO_MODE = FALSE
  /\ musicService = "none"
  /\ serviceInfo = NoInfo
  /\ currentService = "none"
  /\ serviceType = "none"
  /\ accessToken = NoToken
  /\ tokenExpiry = NoExpiry
  /\ now = 0
  /\ cache = << >>
  /\ req = Idle
  /\ ret = NoRet
  /\ resp = NoResp
  /\ handled = NoHandler
  /\ overlap = NoOverlap
  /\ InitData

NextProviders ==
  \/ \E op \in DemoOps, q \in QueryArgs, lim \in LimitParams \cup {ScenarioLimit} :
        DemoDirect(op, q, lim)
  \/ \E op \in SpotifyOps, lim \in LimitParams, id \in TrackIds :
        SpotifyDirect(op, lim, id)
  \/ \E op \in AggregateOps, lim \in AggregateLimits : AggregateDirect(op, lim)
  \/ \E rep \in ExchangeReplies : ExchangeReply(rep)
  \/ \E rep \in GetReplies : GetReply(rep)
  \/ \E rep \in AggReplies : JamendoReply(rep)
  \/ \E rep \in AggReplies : ItunesReply(rep)
  \/ Tick

SpecProviders == InitProviders /\ [][NextProviders]_vars

(***************************************************************************)
(* The demo search, called with the substrings of what the demo provider   *)
(* produces.                                                               *)
(***************************************************************************)
\* The substrings of s of at most MaxQueryLen characters.
Substrings(s) ==
  {SubSeq(s, i, Min(i + l - 1, Len(s))) : i \in 1..Len(s), l \in 1..MaxQueryLen}

\* Every track of the provider has the title and the artist of a catalog entry.
RoundTripQueries ==
  UNION {Substrings(popularSongs[s].title) \cup Substrings(popularSongs[s].artist) :
           s \in 1..NumSongs}

RoundTripLimits == (1..MaxLimit) \cup {NumSongs, Omitted}

\* searchTracks(q, lim) is about to be called.
InitRoundTrip ==
  /\ under = "roundtrip"
  /\ envDemo = "unset"
  /\ clientId = TRUE
  /\ clientSecret = TRUE
  /\ spotifyLoads = TRUE
  /\ USE_DEMO_MODE = FALSE
  /\ musicService = "none"
  /\ serviceInfo = NoInfo
  /\ currentService = "none"
  /\ serviceType = "none"
  /\ accessToken = NoToken
  /\ tokenExpiry = NoExpiry
  /\ now = 0
  /\ cache = << >>
  /\ \E q \in RoundTripQueries, lim \in RoundTripLimits :
        req = [ProviderRequest("demo", "searchTracks", lim) EXCEPT
                 !.query = q, !.pc = "args"]
  /\ ret = NoRet
  /\ resp = NoResp
  /\ handled = NoHandler
  /\ overlap = NoOverlap
  /\ InitData

\* searchTracks runs (it has no await on the network).
SearchApplied ==
  /\ req.pc = "args"
  /\ Complete(req, DemoCall(req))
  /\ UNCHANGED << envDemo, envVars, routeVars, tokenVars, now, cache >>

NextRoundTrip == SearchApplied

SpecRoundTrip == InitRoundTrip /\ [][NextRoundTrip]_vars

(***************************************************************************)
(* musicService.js: calls of the cached operations that overlap.           *)
(***************************************************************************)
FillCallers == {"first", "second"}
CachedOps   == {"getTrendingSongs", "getSongsByGenre"}
FillLimits  == {1, MaxLimit, Omitted}

\* A call of getTrendingSongs or getSongsByGenre: where it is, its arguments
\* and its key; and what it did: whether cache.get gave it a value, the
\* arguments of the call that had set that value, the requests it sent to
\* Jamendo, whether it called cache.set and when, what it returned, and the
\* calls that were waiting for Jamendo on the same key when it missed.
NoFill ==
  [pc |-> "idle", op |-> "none", genre |-> << >>, limit |-> 0, key |-> << >>,
   hit |-> FALSE, from |-> << >>, fetches |-> 0, wrote |-> FALSE, at |-> 0,
   songs |-> << >>, met |-> {}]

\* by: for each key, the arguments of the call whose cache.set came last.
InitFills ==
  /\ under = "fills"
  /\ envDemo = "unset"
  /\ clientId = TRUE
  /\ clientSecret = TRUE
  /\ spotifyLoads = TRUE
  /\ USE_DEMO_MODE = FALSE
  /\ musicService = "none"
  /\ serviceInfo = NoInfo
  /\ currentService = "none"
  /\ serviceType = "none"
  /\ accessToken = NoToken
  /\ tokenExpiry = NoExpiry
  /\ now = 0
  /\ cache = << >>
  /\ req = Idle
  /\ ret = NoRet
  /\ resp = NoResp
  /\ handled = NoHandler
  /\ overlap = NoOverlap
  /\ fills = [calls |-> [c \in FillCallers |-> NoFill], by |-> << >>]
  /\ USERS_FILE = << >>
  /\ LIKED_SONGS_FILE = << >>
  /\ PLAYLISTS_FILE = << >>
  /\ auth = NoAuth

\* The call c, up to its return on a hit or its await of Jamendo on a miss.
CachedCall(c, op, genre, lim) ==
  /\ under = "fills"
  /\ fills.calls[c].pc = "idle"
  /\ LET r     == [ProviderRequest("aggregate", op, lim) EXCEPT !.genre = genre]
         key   == CacheKey(r)
         call  == [NoFill EXCEPT !.op = op, !.genre = genre, !.limit = r.limit,
                                 !.key = key]
         same  == {d \in FillCallers \ {c} :
                     fills.calls[d].pc = "jamendo" /\ fills.calls[d].key = key}
     IN  IF CacheHit(key)
           THEN /\ fills' = [fills EXCEPT !.calls[c] =
                               [call EXCEPT !.pc = "done", !.hit = TRUE,
                                            !.from = fills.by[key],
                                            !.songs = cache[key].val]]
                /\ UNCHANGED cache
           ELSE /\ fills' = [fills EXCEPT !.calls =
                               [d \in FillCallers |->
                                  IF d = c
                                    THEN [call EXCEPT !.pc = "jamendo", !.fetches = 1,
                                                      !.met = same]
                                  ELSE IF d \in same
                                    THEN [fills.calls[d] EXCEPT !.met = @ \cup {c}]
                                  ELSE fills.calls[d]]]
                \* an expired entry is deleted by the get that finds it
                /\ cache' = [k \in DOMAIN cache \ {key} |-> cache[k]]
  /\ UNCHANGED << envDemo, clientId, clientSecret, spotifyLoads, under, overlap,
                  fileVars, routeVars, factoryVars, tokenVars, now, req, ret,
                  resp, handled >>

\* Jamendo answers the call c.
FillReply(c, rep) ==
  /\ fills.calls[c].pc = "jamendo"
  /\ LET call == fills.calls[c]
     IN  IF MapThrows(rep)
           THEN /\ fills' = [fills EXCEPT !.calls[c] =
                               [call EXCEPT !.pc = "done",
                                            !.songs = IF call.op = "getTrendingSongs"
                                                        THEN getFallbackSongs
                                                        ELSE << >>]]
                /\ UNCHANGED cache
           ELSE /\ cache' = CacheSet(call.key, MapResults(rep, ""))
                /\ fills' = [calls |-> [fills.calls EXCEPT ![c] =
                                          [call EXCEPT !.pc = "done", !.wrote = TRUE,
                                                       !.at = now,
                                                       !.songs = MapResults(rep, "")]],
                             by |-> [k \in DOMAIN fills.by \cup {call.key} |->
                                       IF k = call.key
                                         THEN [op |-> call.op, genre |-> call.genre,
                                               limit |-> call.limit]
                                         ELSE fills.by[k]]]
  /\ UNCHANGED << envDemo, clientId, clientSecret, spotifyLoads, under, overlap,
                  fileVars, routeVars, factoryVars, tokenVars, now, req, ret,
                  resp, handled >>

NextFills ==
  \/ \E c \in FillCallers, op \in CachedOps, genre \in Genres, lim \in FillLimits :
        CachedCall(c, op, genre, lim)
  \/ \E c \in FillCallers, rep \in AggReplies : FillReply(c, rep)
  \/ Tick

SpecFills == InitFills /\ [][NextFills]_vars

(***************************************************************************)
(* playlistRoutes.js: the liked songs.                                     *)
(***************************************************************************)
UserIds     == {"u1", "u2"}
SongIds     == 1..MaxSongId
PlaylistIds == {"liked-songs", "p1"}

\* req.body.song: an id, and the other fields of the song (the first song
\* is sent under two titles).
Songs ==
  {[id |-> i, title |-> "x"] : i \in SongIds} \cup {[id |-> 1, title |-> "y"]}

\* data/playlists.json when the requests begin: no file, or a playlist of u1
\* (add-song pushes a song whether or not the playlist holds it).
StoredPlaylists ==
  {<< >>,
   [u \in {"u1"} |-> << [id |-> "p1",
                        songs |-> << [id |-> 1, title |-> "x"],
                                     [id |-> 1, title |-> "x"],
                                     [id |-> 2, title |-> "x"] >>] >>]}

\* loadLikedSongs()[userId] || []
LikedOf(likedSongs, userId) ==
  IF userId \in DOMAIN likedSongs THEN likedSongs[userId] ELSE << >>

\* likedSongs[userId] = list
WithList(likedSongs, userId, list) ==
  [u \in DOMAIN likedSongs \cup {userId} |->
     IF u = userId THEN list ELSE likedSongs[u]]

\* list.filter(song => song.id !== songId)
WithoutSong(list, songId) == SelectSeq(list, LAMBDA song : song.id # songId)

\* What a handler of playlistRoutes.js has answered, and to which request.
PlaylistAnswer(route, status, message, userId, songId) ==
  /\ resp' = [route |-> route, status |-> status, message |-> message]
  /\ handled' = [route |-> route, sent |-> 1, userId |-> userId, songId |-> songId]

\* A like-song that pushes the song whether or not it is liked already.
LikeSongNoCheck(userId, song) ==
  /\ under = "playlists"
  /\ LIKED_SONGS_FILE' =
        WithList(LIKED_SONGS_FILE, userId,
                 Append(LikedOf(LIKED_SONGS_FILE, userId),
                        [id |-> song.id, title |-> song.title, likedAt |-> now]))
  /\ PlaylistAnswer("/like-song", 200, "Song liked", userId, song.id)
  /\ UNCHANGED << envDemo, clientId, clientSecret, spotifyLoads, under, overlap,
                  fills, USERS_FILE, PLAYLISTS_FILE, auth, routeVars, factoryVars,
                  tokenVars, now, cache, req, ret >>

\* POST /like-song
LikeSong(userId, song) ==
  /\ under = "playlists"
  /\ LET list == LikedOf(LIKED_SONGS_FILE, userId)
         isAlreadyLiked == \E j \in DOMAIN list : list[j].id = song.id
     IN  IF ~isAlreadyLiked
           THEN /\ LIKED_SONGS_FILE' =
                      WithList(LIKED_SONGS_FILE, userId,
                               Append(list, [id |-> song.id, title |-> song.title,
                                             likedAt |-> now]))
                /\ PlaylistAnswer("/like-song", 200, "Song liked", userId, song.id)
           ELSE /\ UNCHANGED LIKED_SONGS_FILE
                /\ PlaylistAnswer("/like-song", 200, "Song already liked",
                                  userId, song.id)
  /\ UNCHANGED << envDemo, clientId, clientSecret, spotifyLoads, under, overlap,
                  fills, USERS_FILE, PLAYLISTS_FILE, auth, routeVars, factoryVars,
                  tokenVars, now, cache, req, ret >>

\* POST /unlike-song
UnlikeSong(userId, songId) ==
  /\ under = "playlists"
  /\ IF userId \in DOMAIN LIKED_SONGS_FILE
       THEN /\ LIKED_SONGS_FILE' =
                  WithList(LIKED_SONGS_FILE, userId,
                           WithoutSong(LIKED_SONGS_FILE[userId], songId))
            /\ PlaylistAnswer("/unlike-song", 200, "Song unliked", userId, songId)
       ELSE /\ UNCHANGED LIKED_SONGS_FILE
            /\ PlaylistAnswer("/unlike-song", 200, "No liked songs found",
                              userId, songId)
  /\ UNCHANGED << envDemo, clientId, clientSecret, spotifyLoads, under, overlap,
                  fills, USERS_FILE, PLAYLISTS_FILE, auth, routeVars, factoryVars,
                  tokenVars, now, cache, req, ret >>

\* POST /remove-song
RemoveSong(playlistId, songId, userId) ==
  /\ under = "playlists"
  /\ IF playlistId = "liked-songs"
       THEN /\ IF userId \in DOMAIN LIKED_SONGS_FILE
                 THEN /\ LIKED_SONGS_FILE' =
                            WithList(LIKED_SONGS_FILE, userId,
                                     WithoutSong(LIKED_SONGS_FILE[userId], songId))
                      /\ PlaylistAnswer("/remove-song", 200,
                                        "Song removed from liked songs", userId, songId)
                 ELSE /\ UNCHANGED LIKED_SONGS_FILE
                      /\ PlaylistAnswer("/remove-song", 404, "No liked songs found",
                                        userId, songId)
            /\ UNCHANGED PLAYLISTS_FILE
       ELSE /\ UNCHANGED LIKED_SONGS_FILE
            /\ IF userId \in DOMAIN PLAYLISTS_FILE
                 THEN LET mine == PLAYLISTS_FILE[userId]
                      IN  IF \E j \in DOMAIN mine : mine[j].id = playlistId
                            THEN /\ PLAYLISTS_FILE' =
                                       [PLAYLISTS_FILE EXCEPT ![userId] =
                                          [j \in DOMAIN mine |->
                                             IF mine[j].id = playlistId
                                                /\ \A h \in 1..(j - 1) :
                                                      mine[h].id # playlistId
                                               THEN [mine[j] EXCEPT !.songs =
                                                       WithoutSong(@, songId)]
                                               ELSE mine[j]]]
                                 /\ PlaylistAnswer("/remove-song", 200,
                                                   "Song removed from playlist",
                                                   userId, songId)
                            ELSE /\ UNCHANGED PLAYLISTS_FILE
                                 /\ PlaylistAnswer("/remove-song", 404,
                                                   "Playlist not found", userId, songId)
                 ELSE /\ UNCHANGED PLAYLISTS_FILE
                      /\ PlaylistAnswer("/remove-song", 404, "User not found",
                                        userId, songId)
  /\ UNCHANGED << envDemo, clientId, clientSecret, spotifyLoads, under, overlap,
                  fills, USERS_FILE, auth, routeVars, factoryVars, tokenVars, now,
                  cache, req, ret >>

InitPlaylists ==
  /\ under = "playlists"
  /\ envDemo = "unset"
  /\ clientId = TRUE
  /\ clientSecret = TRUE
  /\ spotifyLoads = TRUE
  /\ USE_DEMO_MODE = FALSE
  /\ musicService = "none"
  /\ serviceInfo = NoInfo
  /\ currentService = "none"
  /\ serviceType = "none"
  /\ accessToken = NoToken
  /\ tokenExpiry = NoExpiry
  /\ now = 0
  /\ cache = << >>
  /\ req = Idle
  /\ ret = NoRet
  /\ resp = NoResp
  /\ handled = NoHandler
  /\ overlap = NoOverlap
  /\ fills = NoFills
  /\ USERS_FILE = << >>
  /\ LIKED_SONGS_FILE = << >>
  /\ PLAYLISTS_FILE \in StoredPlaylists
  /\ auth = NoAuth

NextPlaylists ==
  \/ \E userId \in UserIds, song \in Songs : LikeSong(userId, song)
  \/ \E userId \in UserIds, songId \in SongIds : UnlikeSong(userId, songId)
  \/ \E playlistId \in PlaylistIds, songId \in SongIds, userId \in UserIds :
        RemoveSong(playlistId, songId, userId)

SpecPlaylists == InitPlaylists /\ [][NextPlaylists]_vars

(***************************************************************************)
(* authRoutes.js: register, login and the update of the profile. A handler *)
(* is suspended at each await of bcrypt with the users it has loaded.      *)
(***************************************************************************)
AuthCallers == {"c1", "c2"}
Emails      == {"ann@x", "bob@x"}
MinPassword == 6

\* The passwords requests carry: two that are long enough, one that is not.
Secret == <<"s","e","c","r","e","t">>
Passwd == <<"p","a","s","s","w","d">>
Short  == <<"a","b","c">>

\* bcrypt.hash, and bcrypt.compare of a password with a hash.
Hash(password) == [hashed |-> password]
Compare(password, hashed) == hashed = Hash(password)

\* A handler in flight: where it is suspended, what it was asked, and its
\* local variables users and the index of the user it has found.
AuthIdle ==
  [pc |-> "idle", op |-> "none", fullName |-> "", email |-> "",
   password |-> << >>, newPassword |-> << >>, users |-> << >>, index |-> 0]

\* A user as stored (its dates and its picture are not kept).
NewUser(call) ==
  [id |-> now, fullName |-> call.fullName, email |-> call.email,
   password |-> Hash(call.password)]

\* users.find(u => u.email === email), users.findIndex(u => u.id === userId):
\* the index of the first, 0 when there is none.
FindIndex(users, field, value) ==
  IF \E j \in DOMAIN users : users[j][field] = value
    THEN CHOOSE j \in DOMAIN users :
           users[j][field] = value /\ \A h \in 1..(j - 1) : users[h][field] # value
    ELSE 0

\* likedSongs[id] = [] when the user has no list yet, and the file is saved.
LikedInitialized(id) ==
  IF id \in DOMAIN LIKED_SONGS_FILE THEN LIKED_SONGS_FILE
  ELSE WithList(LIKED_SONGS_FILE, id, << >>)

\* The handler of the call c answers; registered is the users register has
\* answered with a success.
AuthAnswer(c, route, status, registered) ==
  /\ auth' = [calls |-> [auth.calls EXCEPT ![c] = AuthIdle],
              registered |-> auth.registered \cup registered]
  /\ resp' = [route |-> route, status |-> status]
  /\ handled' = [route |-> route, sent |-> 1]

\* The handler of the call c is suspended at an await.
AuthAwait(c, call) ==
  /\ auth' = [auth EXCEPT !.calls[c] = call]
  /\ UNCHANGED << resp, handled >>

AuthUnchanged ==
  UNCHANGED << envDemo, clientId, clientSecret, spotifyLoads, under, overlap,
               fills, PLAYLISTS_FILE, routeVars, factoryVars, tokenVars, now,
               cache, req, ret >>

\* A register that adds its user to the users stored when it saves.
RegisterHashedOnStored(c) ==
  /\ auth.calls[c].pc = "hash"
  /\ auth.calls[c].op = "register"
  /\ LET call == auth.calls[c]
     IN  /\ USERS_FILE' = Append(USERS_FILE, NewUser(call))
         /\ LIKED_SONGS_FILE' = LikedInitialized(NewUser(call).id)
         /\ AuthAnswer(c, "/register", 200,
                       {[id |-> NewUser(call).id, email |-> call.email]})
  /\ AuthUnchanged

\* POST /register, up to await bcrypt.hash
Register(c, fullName, email, password) ==
  /\ under = "auth"
  /\ auth.calls[c].pc = "idle"
  /\ IF fullName = "" \/ email = "" \/ password = << >>
       THEN AuthAnswer(c, "/register", 400, {})
       ELSE IF Len(password) < MinPassword
       THEN AuthAnswer(c, "/register", 400, {})
       ELSE IF \E j \in DOMAIN USERS_FILE : USERS_FILE[j].email = email
       THEN AuthAnswer(c, "/register", 400, {})
       ELSE AuthAwait(c, [AuthIdle EXCEPT !.pc = "hash", !.op = "register",
                                          !.fullName = fullName, !.email = email,
                                          !.password = password,
                                          !.users = USERS_FILE])
  /\ UNCHANGED << USERS_FILE, LIKED_SONGS_FILE >>
  /\ AuthUnchanged

\* POST /register, from the hash on: the user is pushed to the users loaded
\* before the await, and these are saved.
RegisterHashed(c) ==
  /\ auth.calls[c].pc = "hash"
  /\ auth.calls[c].op = "register"
  /\ LET call == auth.calls[c]
     IN  /\ USERS_FILE' = Append(call.users, NewUser(call))
         /\ LIKED_SONGS_FILE' = LikedInitialized(NewUser(call).id)
         /\ AuthAnswer(c, "/register", 200, {[id |-> NewUser(call).id, email |-> call.email]})
  /\ AuthUnchanged

\* POST /login, up to await bcrypt.compare
Login(c, email, password) ==
  /\ under = "auth"
  /\ auth.calls[c].pc = "idle"
  /\ LET index == FindIndex(USERS_FILE, "email", email)
     IN  IF email = "" \/ password = << >>
           THEN AuthAnswer(c, "/login", 400, {})
           ELSE IF index = 0
           THEN AuthAnswer(c, "/login", 400, {})
           ELSE AuthAwait(c, [AuthIdle EXCEPT !.pc = "compare", !.op = "login",
                                              !.email = email, !.password = password,
                                              !.users = USERS_FILE, !.index = index])
  /\ UNCHANGED << USERS_FILE, LIKED_SONGS_FILE >>
  /\ AuthUnchanged

\* POST /login, from the comparison on: lastLogin is set and the users
\* loaded before the await are saved.
LoginCompared(c) ==
  /\ auth.calls[c].pc = "compare"
  /\ auth.calls[c].op = "login"
  /\ LET call == auth.calls[c]
         user == call.users[call.index]
     IN  IF ~Compare(call.password, user.password)
           THEN /\ AuthAnswer(c, "/login", 400, {})
                /\ UNCHANGED << USERS_FILE, LIKED_SONGS_FILE >>
           ELSE /\ USERS_FILE' = call.users
                /\ LIKED_SONGS_FILE' = LikedInitialized(user.id)
                /\ AuthAnswer(c, "/login", 200, {})
  /\ AuthUnchanged

\* PUT /profile for the user of the token, up to await bcrypt.compare; it
\* has no await when no change of password is asked.
UpdateProfile(c, userId, fullName, currentPassword, newPassword) ==
  /\ under = "auth"
  /\ auth.calls[c].pc = "idle"
  /\ LET index == FindIndex(USERS_FILE, "id", userId)
         users == IF index = 0 \/ fullName = "" THEN USERS_FILE
                  ELSE [USERS_FILE EXCEPT ![index].fullName = fullName]
     IN  IF index = 0
           THEN /\ AuthAnswer(c, "/profile", 404, {})
                /\ UNCHANGED USERS_FILE
           ELSE IF currentPassword # << >> /\ newPassword # << >>
           THEN /\ AuthAwait(c, [AuthIdle EXCEPT !.pc = "compare", !.op = "profile",
                                                 !.password = currentPassword,
                                                 !.newPassword = newPassword,
                                                 !.users = users, !.index = index])
                /\ UNCHANGED USERS_FILE
           ELSE /\ USERS_FILE' = users
                /\ AuthAnswer(c, "/profile", 200, {})
  /\ UNCHANGED LIKED_SONGS_FILE
  /\ AuthUnchanged

\* PUT /profile, from the comparison to await bcrypt.hash
ProfileCompared(c) ==
  /\ auth.calls[c].pc = "compare"
  /\ auth.calls[c].op = "profile"
  /\ LET call == auth.calls[c]
     IN  IF ~Compare(call.password, call.users[call.index].password)
           THEN AuthAnswer(c, "/profile", 400, {})
           ELSE IF Len(call.newPassword) < MinPassword
           THEN AuthAnswer(c, "/profile", 400, {})
           ELSE AuthAwait(c, [call EXCEPT !.pc = "hash"])
  /\ UNCHANGED << USERS_FILE, LIKED_SONGS_FILE >>
  /\ AuthUnchanged

\* PUT /profile, from the hash on: the users loaded before the awaits are saved.
ProfileHashed(c) ==
  /\ auth.calls[c].pc = "hash"
  /\ auth.calls[c].op = "profile"
  /\ LET call == auth.calls[c]
     IN  /\ USERS_FILE' = [call.users EXCEPT
                             ![call.index].password = Hash(call.newPassword)]
         /\ AuthAnswer(c, "/profile", 200, {})
  /\ UNCHANGED LIKED_SONGS_FILE
  /\ AuthUnchanged

InitAuth ==
  /\ under = "auth"
  /\ envDemo = "unset"
  /\ clientId = TRUE
  /\ clientSecret = TRUE
  /\ spotifyLoads = TRUE
  /\ USE_DEMO_MODE = FALSE
  /\ musicService = "none"
  /\ serviceInfo = NoInfo
  /\ currentService = "none"
  /\ serviceType = "none"
  /\ accessToken = NoToken
  /\ tokenExpiry = NoExpiry
  /\ now = MaxTime - TickStep
  /\ cache = << >>
  /\ req = Idle
  /\ ret = NoRet
  /\ resp = NoResp
  /\ handled = NoHandler
  /\ overlap = NoOverlap
  /\ fills = NoFills
  /\ USERS_FILE = << >>
  /\ LIKED_SONGS_FILE = << >>
  /\ PLAYLISTS_FILE = << >>
  /\ auth = [calls |-> [c \in AuthCallers |-> AuthIdle], registered |-> {}]

\* The ids of the tokens a client may hold: those of the users registered.
TokenIds == {u.id : u \in auth.registered}

NextAuth ==
  \/ \E c \in AuthCallers, fullName \in {"Ann", ""}, email \in Emails \cup {""},
        password \in {Secret, Short, << >>} : Register(c, fullName, email, password)
  \/ \E c \in AuthCallers : RegisterHashed(c)
  \/ \E c \in AuthCallers, email \in Emails \cup {""},
        password \in {Secret, << >>} : Login(c, email, password)
  \/ \E c \in AuthCallers : LoginCompared(c)
  \/ \E c \in AuthCallers, userId \in TokenIds, fullName \in {"Ann", ""},
        currentPassword \in {Secret, << >>}, newPassword \in {Passwd, Short, << >>} :
        UpdateProfile(c, userId, fullName, currentPassword, newPassword)
  \/ \E c \in AuthCallers : ProfileCompared(c)
  \/ \E c \in AuthCallers : ProfileHashed(c)
  \/ Tick

SpecAuth == InitAuth /\ [][NextAuth]_vars

\* The stored users hold the user u that register has answered for.
Stored(u) ==
  \E j \in DOMAIN USERS_FILE :
    USERS_FILE[j].id = u.id /\ USERS_FILE[j].email = u.email

\* C29: whatever the order in which register requests are suspended at the
\* hash of the password and resumed, users.json never holds two users with
\* the same email.
C29_EmailsDistinct ==
  \A i, j \in DOMAIN USERS_FILE :
    i # j => USERS_FILE[i].email # USERS_FILE[j].email

\* Register has answered two requests of the same email with a success, and
\* one user of that email is stored.
C29_Witness ==
  \E u, v \in auth.registered :
    /\ u # v
    /\ u.email = v.email
    /\ \E j \in DOMAIN USERS_FILE : USERS_FILE[j].email = u.email

\* C30: every user register has answered with a success is in users.json
\* from then on, whatever the order of the register, login and profile
\* requests: no save of a request removes the user another has written.
C30_RegisteredUsersKept == \A u \in auth.registered : Stored(u)

(***************************************************************************)
(* Upstreams that may never answer.                                        *)
(***************************************************************************)
\* The timeout option of each upstream request, in milliseconds: axios.post
\* of getAccessToken is given one; axios.get of makeRequest and the clients
\* jamendoApi and iTunesApi are given none, and the default of axios is 0,
\* no timeout.
TimeoutOf(pc) == IF pc = "exchange" THEN ExchangeTimeout ELSE NoTimeout

\* The request a call waits for is answered, or is ended by its timeout:
\* axios then rejects, which is the reply "no response".
AnsweredOrTimedOut ==
  /\ TimeoutOf(req.pc) # NoTimeout
  /\ \/ \E rep \in ExchangeReplies : ExchangeReply(rep)
     \/ \E rep \in GetReplies : GetReply(rep)
     \/ \E rep \in AggReplies : JamendoReply(rep)
     \/ \E rep \in AggReplies : ItunesReply(rep)

\* The providers with upstreams that may never answer: only a request with
\* a timeout is sure to end.
SpecUnanswered ==
  InitProviders /\ [][NextProviders]_vars /\ WF_vars(AnsweredOrTimedOut)

(***************************************************************************)
(* The selector and the facade: the process from its start.                *)
(***************************************************************************)
Init ==
  /\ envDemo \in {"unset", "true"}
  /\ clientId \in BOOLEAN
  /\ clientSecret \in BOOLEAN
  /\ spotifyLoads \in BOOLEAN
  /\ ~spotifyLoads => clientId /\ clientSecret
  /\ USE_DEMO_MODE = FALSE
  /\ musicService = "none"
  /\ serviceInfo = NoInfo
  /\ currentService = "none"
  /\ serviceType = "none"
  /\ accessToken = NoToken
  /\ tokenExpiry = NoExpiry
  /\ now = 0
  /\ cache = << >>
  /\ under \in {"routes", "factory"}
  /\ req = Idle
  /\ ret = NoRet
  /\ resp = NoResp
  /\ handled = NoHandler
  /\ overlap = NoOverlap
  /\ InitData

\* What the process is asked to do.
Requests ==
  \/ LoadRoutes
  \/ \E mode \in ModeInputs : SwitchMode(mode)
  \/ \E rejects \in BOOLEAN : Health(rejects)
  \/ \E q \in Queries, lim \in LimitParams, rejects \in BOOLEAN : Search(q, lim, rejects)
  \/ \E lim \in LimitParams, rejects \in BOOLEAN : Trending(lim, rejects)
  \/ \E lim \in LimitParams, rejects \in BOOLEAN : Categories(lim, rejects)
  \/ \E lim \in LimitParams, rejects \in BOOLEAN : Recommendations(lim, rejects)
  \/ \E id \in TrackIds, rejects \in BOOLEAN : TrackDetails(id, rejects)
  \/ GetServiceInfo
  \/ createService

Next ==
  \/ Requests
  \/ \E rep \in ExchangeReplies : ExchangeReply(rep)
  \/ \E rep \in GetReplies : GetReply(rep)

Spec == Init /\ [][Next]_vars

\* The same process when the token endpoint of Spotify refuses every exchange.
NextExchangeFails ==
  \/ Requests
  \/ \E rep \in {x \in ExchangeReplies : ~x.ok} : ExchangeReply(rep)

SpecExchangeFails == Init /\ [][NextExchangeFails]_vars

(***************************************************************************)
(* The selector.                                                           *)
(***************************************************************************)
ListRoutes == {"/search", "/trending", "/categories", "/recommendations"}

\* The step that loads musicRoutes.js; the step that ends createService.
RoutesSelect  == musicService = "none" /\ musicService' # "none"
FactorySelect == currentService = "none" /\ currentService' # "none"

\* C1: with the demo flag not set, an initial selection that meets an
\* activation error (here: a Spotify credential is missing) ends in Fallback,
\* the demo provider active under the type 'demo-fallback', in the routes as
\* in the factory.
C1_FallbackOnActivationError ==
  [][ (envDemo # "true" /\ CredentialsMissing) =>
        /\ RoutesSelect =>
              musicService' = "demo" /\ serviceInfo'.type = "demo-fallback"
        /\ FactorySelect =>
              currentService' = "demo" /\ serviceType' = "demo-fallback" ]_vars

\* C2: when every token exchange fails, healthCheck answers a status other
\* than OK without throwing, the initial selection ends in Fallback, and until
\* a switch of mode is requested the demo provider serves every operation.
C2_ExchangeFailsServesDemo ==
  /\ (ret.prov = "spotify" /\ ret.op = "healthCheck") =>
        ret.status # "OK" /\ ~ret.threw
  /\ (under = "factory" /\ currentService # "none" /\ envDemo # "true") =>
        currentService = "demo" /\ serviceType = "demo-fallback"
  /\ (under = "routes" /\ musicService # "none" /\ envDemo = "unset") =>
        /\ musicService = "demo"
        /\ serviceInfo.type = "demo-fallback"
        /\ ret.prov \in {"none", "demo"}

\* C3: a switch-mode whose target is neither 'demo' nor 'spotify' (a missing
\* target included) is answered 400 with the list of the valid modes, and
\* leaves the active provider, the service info and the environment flag as
\* they were.
C3_InvalidModeRejected ==
  [][ (resp'.route = "/switch-mode" /\ resp'.mode \notin ValidModes) =>
        /\ resp'.status = 400
        /\ resp'.error = "Invalid mode"
        /\ resp'.validModes = ValidModes
        /\ ~resp'.success
        /\ musicService' = musicService
        /\ serviceInfo' = serviceInfo
        /\ envDemo' = envDemo ]_vars

\* An invalid switch-mode has been answered while Spotify was active.
C3_Witness ==
  /\ resp.route = "/switch-mode"
  /\ resp.mode = "undefined"
  /\ resp.status = 400
  /\ musicService = "spotify"

\* C4: switchMode('demo') succeeds from every selector state and leaves the
\* demo provider active under the type 'demo'; repeated at once, it succeeds
\* again and leaves the state as the first call left it.
C4_SwitchDemoIdempotent ==
  [][ (resp'.route = "/switch-mode" /\ resp'.mode = "demo") =>
        /\ resp'.status = 200
        /\ resp'.success
        /\ musicService' = "demo"
        /\ serviceInfo'.type = "demo"
        /\ (resp.route = "/switch-mode" /\ resp.mode = "demo") =>
              /\ musicService' = musicService
              /\ serviceInfo' = serviceInfo
              /\ envDemo' = envDemo
              /\ resp' = resp ]_vars

\* switchMode('demo') has been called twice in a row.
C4_Witness ==
  /\ handled.route = "/switch-mode"
  /\ handled.repeat
  /\ resp.mode = "demo"
  /\ resp.success
  /\ musicService = "demo"

\* C5: a switch to 'spotify' while a Spotify credential is missing is answered
\* with a validation error that lists the valid modes, and does not make the
\* Spotify provider the active one.
C5_MissingCredentialRejected ==
  [][ (resp'.route = "/switch-mode" /\ resp'.mode = "spotify"
       /\ handled' # handled /\ CredentialsMissing) =>
        /\ resp'.status = 400
        /\ resp'.validModes = ValidModes
        /\ (musicService' = "spotify" => musicService = "spotify") ]_vars

\* C6: every request ends with exactly one response, the payload of the
\* route or, when the provider call is rejected, the error payload of the
\* route; no error leaves a handler uncaught.
C6_ExactlyOneResponse ==
  handled.route # "none" =>
    /\ handled.sent = 1
    /\ ~handled.escaped
    /\ resp.route = handled.route
    /\ resp.status \in {200, 400, 404, 500}
    /\ handled.rejected => resp.status = 500 /\ resp.error # ""
    /\ resp.status # 200 <=> resp.error # ""

\* The Spotify call of GET /trending was rejected and answered by the catch.
C6_Witness ==
  /\ handled.route = "/trending"
  /\ handled.rejected
  /\ musicService = "spotify"
  /\ resp.status = 500
  /\ ret.prov = "spotify"

\* C9: for a limit that is <= 0 or omitted the default limit of the route is
\* the effective one: the response carries no more items than that default.
C9_DefaultLimitBounds ==
  (resp.route \in ListRoutes /\ resp.status = 200 /\ resp.limit <= 0) =>
     Len(resp.items) <= (IF resp.route = "/trending" THEN TrendingDefault
                         ELSE SearchDefault)

(***************************************************************************)
(* The providers' contracts.                                               *)
(***************************************************************************)
ListOps ==
  {"searchTracks", "getTrendingTracks", "getCategories", "getRecommendations",
   "searchSongs", "getTrendingSongs", "getSongsByGenre"}

\* The result an operation gives when it has nothing: no track, a null track
\* for getTrackDetails, and the fallback song for getTrendingSongs.
EmptyOrDefault(r) ==
  /\ r.total = 0
  /\ ~r.hasNext
  /\ ~r.found
  /\ r.items = IF r.op = "getTrendingSongs" THEN getFallbackSongs ELSE << >>

\* C7: an operation of the Spotify provider or of the aggregate provider
\* never throws to its caller, whatever its upstream calls do; and when every
\* upstream call it made has failed (no response, an error status, a body
\* without the expected fields, no token) it returns its empty or default
\* result.
C7_UpstreamFailureRecovered ==
  (ret.prov \in {"spotify", "aggregate"} /\ ret.op \in ListOps \cup {"getTrackDetails"}) =>
     /\ ~ret.threw
     /\ (ret.calls > 0 /\ ~ret.anyOk) => EmptyOrDefault(ret)

\* Both requests of searchSongs have failed, and it has returned.
C7_Witness ==
  /\ ret.prov = "aggregate"
  /\ ret.op = "searchSongs"
  /\ ret.calls = 2
  /\ ret.anyFailed
  /\ ~ret.anyOk
  /\ ret.items = << >>

\* C8: with a positive limit, a list operation of any provider returns at
\* most limit items, whatever number of items the upstream returns.
C8_AtMostLimitItems ==
  (ret.op \in ListOps /\ ret.limit > 0) => Len(ret.items) <= ret.limit

\* C10: a list operation returns an empty sequence and no error when nothing
\* matches: the demo search of a query no catalog entry matches returns no
\* track, total 0 and hasNext false, and an operation whose every upstream
\* reply was well-formed and carried no item returns no item.
C10_ZeroMatchesEmpty ==
  [][ /\ \A q \in QueryArgs, lim \in LimitParams :
            (FilteredTracks[q] = << >> /\ DemoDirect("searchTracks", q, lim)) =>
               /\ ~ret'.threw
               /\ ret'.items = << >>
               /\ ret'.total = 0
               /\ ~ret'.hasNext
      /\ (/\ ret'.op \in ListOps
          /\ ret'.calls > 0
          /\ ~ret'.anyFailed
          /\ ~ret'.anyItems) =>
               /\ ~ret'.threw
               /\ ret'.items = << >>
               /\ ret'.total = 0
               /\ ~ret'.hasNext ]_vars

(***************************************************************************)
(* The aggregate search.                                                   *)
(***************************************************************************)
\* n is the least integer not below share/10 of limit.
IsCeilOfShare(n, share, limit) ==
  /\ 10 * n >= share * limit
  /\ 10 * (n - 1) < share * limit

\* The first limit elements of s.
FirstOf(s, limit) == SubSeq(s, 1, Min(limit, Len(s)))

C13_JoinedWhateverTheOrder ==
  [][ /\ req'.pc = "fanout" =>
            /\ req'.calls = 2
            /\ ret' = NoRet
            /\ req'.first = "none" <=> (~req'.jamDone /\ ~req'.ituDone)
      /\ (req.pc = "fanout" /\ req'.pc = "idle") =>
            /\ req.jamDone # req.ituDone
            /\ req.first = (IF req.jamDone THEN "jamendo" ELSE "itunes")
            /\ ret'.op = "searchSongs"
            /\ ret'.first = req.first
            /\ ret'.items = FirstOf(ret'.jam \o ret'.itu, ret'.limit) ]_vars

\* iTunes answered first, and the track of Jamendo still comes first.
C13_Witness ==
  /\ ret.op = "searchSongs"
  /\ ret.first = "itunes"
  /\ ret.limit = 1
  /\ Len(ret.jam) = 1
  /\ Len(ret.itu) = 1
  /\ Len(ret.items) = 1
  /\ ret.items[1].id = [src |-> "jamendo", n |-> 1]

(***************************************************************************)
(* The trending approximation and the token of SpotifyService.             *)
(***************************************************************************)
\* C14: getTrendingTracks of SpotifyService never returns two tracks with
\* the same id, whatever overlapping results its searches return.
C14_TrendingIdsDistinct ==
  (ret.prov = "spotify" /\ ret.op = "getTrendingTracks") =>
     \A i, j \in DOMAIN ret.items : i # j => ret.items[i].id # ret.items[j].id

\* The searches have collected three tracks of which two are returned: one
\* id came twice.
C14_Witness ==
  /\ ret.prov = "spotify"
  /\ ret.op = "getTrendingTracks"
  /\ ret.limit = MaxLimit
  /\ ret.collected = 3
  /\ Len(ret.items) = 2

\* A step in which makeRequest is entered and getAccessToken has tested
\* the cache.
TokenRequested ==
  /\ req'.pc \in {"get", "exchange"}
  /\ req.pc = "idle" \/ req'.i # req.i

\* C15: while a token is cached and its expiry lies in the future,
\* getAccessToken returns that token and makes no exchange; once the expiry
\* has passed, the next getAccessToken makes an exchange, which replaces the
\* cached token and its expiry.
C15_TokenCachedUntilExpiry ==
  [][ /\ TokenRequested =>
            IF accessToken' # NoToken /\ tokenExpiry' > now
              THEN req'.pc = "get" /\ req'.token = accessToken'
              ELSE req'.pc = "exchange" /\ req'.token = NoToken
      /\ (req.pc = "exchange" /\ req'.pc = "get" /\ req'.i = req.i) =>
            /\ tokenExpiry <= now
            /\ accessToken' \in 1..MaxTokens
            /\ tokenExpiry' > now
            /\ req'.token = accessToken' ]_vars

\* A token is cached, its expiry has passed, and an exchange is in flight.
C15_Witness ==
  /\ req.pc = "exchange"
  /\ accessToken # NoToken
  /\ tokenExpiry # NoExpiry
  /\ tokenExpiry <= now

\* C16: a 401 answer to a request clears the cached token and its expiry,
\* and the next request makes an exchange; an answer that fails otherwise,
\* or succeeds, leaves the cached token and its expiry as they are.
C16_UnauthorizedClearsToken ==
  [][ /\ \A rep \in GetReplies :
            (req.pc = "get" /\ GetReply(rep)) =>
               IF rep.kind = "http" /\ rep.status = 401
                 THEN /\ accessToken' = NoToken
                      /\ tokenExpiry' = NoExpiry
                      /\ req'.pc \in {"idle", "exchange"}
                 ELSE /\ accessToken' = accessToken
                      /\ tokenExpiry' = tokenExpiry
      /\ (TokenRequested /\ accessToken' = NoToken) => req'.pc = "exchange" ]_vars

\* getTrendingTracks: one search has succeeded, a later one was answered
\* 401, and the next search waits for a new token.
C16_Witness ==
  /\ req.op = "getTrendingTracks"
  /\ req.pc = "exchange"
  /\ req.anyOk
  /\ req.anyFailed
  /\ accessToken = NoToken
  /\ tokenExpiry = NoExpiry

\* C17: under every interleaving of calls that overlap, the token cache is
\* either empty (no token and no expiry) or holds the token and the expiry
\* of one and the same exchange that succeeded, and every request is sent
\* with a token an exchange that succeeded has issued.
C17_TokenCacheConsistent ==
  /\ \/ accessToken = NoToken /\ tokenExpiry = NoExpiry
     \/ /\ accessToken # NoToken
        /\ << accessToken, tokenExpiry >> = overlap.last
  /\ \A c \in Callers :
        overlap.calls[c].pc = "get" => overlap.calls[c].token \in overlap.tokens

\* Two calls have each made an exchange; the first was answered 401 and has
\* cleared the token of the second, whose request is still in flight.
C17_Witness ==
  /\ overlap.calls[1].pc = "idle"
  /\ overlap.calls[2].pc = "get"
  /\ overlap.calls[2].token = 2
  /\ overlap.tokens = {1, 2}
  /\ overlap.last[1] = 2
  /\ accessToken = NoToken
  /\ tokenExpiry = NoExpiry

(***************************************************************************)
(* Termination.                                                            *)
(***************************************************************************)
\* C18: every upstream request carries a bounded timeout, and every provider
\* operation that waits for an upstream eventually completes, even when the
\* upstream never answers.
C18_EveryCallCompletes ==
  /\ [](req.pc # "idle" => TimeoutOf(req.pc) # NoTimeout)
  /\ (req.pc # "idle") ~> (req.pc = "idle")

(***************************************************************************)
(* The demo provider.                                                      *)
(***************************************************************************)
\* C19: for every limit n >= 0, getTrendingTracks(n) of the demo provider
\* returns exactly n tracks, each with a duration that is not negative, with
\* the title and the artist of the catalog entry its position falls on when
\* the catalog is cycled through, and with the source 'demo'.
C19_DemoTrendingExact ==
  (ret.prov = "demo" /\ ret.op = "getTrendingTracks" /\ ret.limit >= 0) =>
     /\ Len(ret.items) = ret.limit
     /\ \A k \in DOMAIN ret.items :
           /\ ret.items[k].duration.min >= 0
           /\ ret.items[k].duration.min <= ret.items[k].duration.max
           /\ ret.items[k].song = ((k - 1) % NumSongs) + 1
           /\ popularSongs[ret.items[k].song].title # << >>
           /\ popularSongs[ret.items[k].song].artist # << >>
           /\ ret.items[k].source = "demo"

\* q occurs in s as it is written.
IsSubstringOf(q, s) ==
  \E i \in 1..Len(s) :
     i + Len(q) - 1 <= Len(s) /\ SubSeq(s, i, i + Len(q) - 1) = q

\* The tracks hold one with the title and the artist of the catalog entry s.
HasTrackOf(tracks, s) ==
  \E k \in DOMAIN tracks :
     /\ popularSongs[tracks[k].song].title = popularSongs[s].title
     /\ popularSongs[tracks[k].song].artist = popularSongs[s].artist

\* The search that has returned was given a substring, not empty, of the
\* title or of the artist of the catalog entry s.
SearchedBySubstringOf(s) ==
  /\ ret.prov = "demo"
  /\ ret.op = "searchTracks"
  /\ ret.query # << >>
  /\ \/ IsSubstringOf(ret.query, popularSongs[s].title)
     \/ IsSubstringOf(ret.query, popularSongs[s].artist)

\* C20 as stated: for every track of the demo provider, every substring q,
\* not empty, of its title or artist, and every limit >= 1, the result of
\* searchTracks(q, limit) holds a track with that title and artist.
C20_RoundTripAnyLimit ==
  \A s \in 1..NumSongs :
     (SearchedBySubstringOf(s) /\ ret.limit >= 1) => HasTrackOf(ret.items, s)

\* C20 amended: the same for every limit that is at least the number of
\* catalog entries (the default limit is): a smaller limit keeps the first
\* matches in pool order, which may all be other catalog entries.
C20_RoundTripWithinCatalog ==
  \A s \in 1..NumSongs :
     (SearchedBySubstringOf(s) /\ ret.limit >= NumSongs) => HasTrackOf(ret.items, s)

\* A query of one character that matches more tracks than the limit, and
\* the result holds a catalog entry other than the first.
C20_Witness ==
  /\ ret.limit >= NumSongs
  /\ Len(ret.query) = 1
  /\ ret.total > ret.limit
  /\ \E s \in 2..NumSongs : SearchedBySubstringOf(s) /\ HasTrackOf(ret.items, s)

(***************************************************************************)
(* The facade: track details.                                              *)
(***************************************************************************)
\* C21: GET /track/:id answers with a made-up track that carries the
\* requested id, and never with not-found, when the active provider (demo,
\* or demo as the fallback) has no getTrackDetails; when the provider has
\* the operation and it returns no track, the answer is 404 not-found.
C21_PlaceholderOrNotFound ==
  resp.route = "/track/:id" =>
    /\ musicService = "demo" =>
          /\ resp.status = 200
          /\ Len(resp.items) = 1
          /\ resp.items[1].id.n = handled.trackId
    /\ (musicService = "spotify" /\ ~handled.rejected /\ ~ret.found) =>
          /\ resp.status = 404
          /\ resp.error = "Track not found"

\* The fallback provider was asked for track 2 and the made-up track was sent.
C21_Witness ==
  /\ resp.route = "/track/:id"
  /\ serviceInfo.type = "demo-fallback"
  /\ handled.trackId = 2
  /\ resp.status = 200
  /\ resp.items[1].id.n = 2

(***************************************************************************)
(* The memoization cache of the aggregate provider.                        *)
(***************************************************************************)
\* The calls a and b have the same operation and the same parameters
\* (getTrendingSongs has no genre).
SameOperation(a, b) ==
  /\ a.op = b.op
  /\ a.limit = b.limit
  /\ a.op = "getSongsByGenre" => a.genre = b.genre

\* C22: a call that is given a cached value sends no request upstream, and
\* the value was set by a call of the same operation with the same
\* parameters; a call that misses sends one request; when two overlapping
\* calls have missed on the same key, both have sent a request, each whose
\* request succeeded has set the key, and the cache holds under that key the
\* result of one of them that succeeded, until it expires.
C22_CacheKeyedAndFilled ==
  \A c \in FillCallers :
     LET a == fills.calls[c]
     IN  /\ a.hit => a.fetches = 0 /\ SameOperation(a.from, a)
         /\ (a.pc = "done" /\ ~a.hit) => a.fetches = 1
         /\ \A d \in a.met :
               LET b == fills.calls[d]
               IN  (a.pc = "done" /\ b.pc = "done") =>
                      /\ a.key = b.key
                      /\ SameOperation(a, b)
                      /\ a.fetches = 1 /\ b.fetches = 1
                      /\ a.key \in DOMAIN cache =>
                            \E x \in {a, b} : x.wrote /\ cache[a.key].val = x.songs
                      /\ (a.wrote /\ a.at + stdTTL >= now) => a.key \in DOMAIN cache

\* Two calls of getSongsByGenre('rock_1', 1) have overlapped, Jamendo has
\* answered the first with one song and the second with two, and the cache
\* holds the two.
C22_Witness ==
  LET a == fills.calls["first"]
      b == fills.calls["second"]
  IN  /\ a.pc = "done" /\ b.pc = "done"
      /\ "second" \in a.met
      /\ a.op = "getSongsByGenre" /\ a.genre = RockOne /\ a.limit = 1
      /\ a.wrote /\ b.wrote
      /\ Len(a.songs) = 1 /\ Len(b.songs) = 2
      /\ a.key \in DOMAIN cache
      /\ cache[a.key].val = b.songs

(***************************************************************************)
(* The demo search.                                                        *)
(***************************************************************************)
\* s contains q when the case of the letters is ignored.
ContainsIgnoringCase(s, q) ==
  q = << >> \/ IsSubstringOf(toLowerCase(q), toLowerCase(s))

\* The entries of the pool of 100 tracks whose title, artist or album
\* contains q, in the order of the pool.
PoolMatches(q) ==
  LET Match(track) ==
        \/ ContainsIgnoringCase(popularSongs[track.song].title, q)
        \/ ContainsIgnoringCase(popularSongs[track.song].artist, q)
        \/ ContainsIgnoringCase(popularSongs[track.song].album, q)
  IN  SelectSeq(DemoGetTrendingTracks(PoolSize), Match)

\* C23: demo searchTracks(q, limit) returns as tracks the first limit entries,
\* in pool order, of the pool of 100 tracks whose title, artist or album
\* contains q ignoring case; total is the number of all the matching entries,
\* hasNext is true exactly when total > limit, and hasPrevious is false.
C23_DemoSearchExact ==
  (ret.prov = "demo" /\ ret.op = "searchTracks") =>
     /\ ret.items = FirstOf(PoolMatches(ret.query), ret.limit)
     /\ ret.total = Len(PoolMatches(ret.query))
     /\ ret.hasNext <=> (ret.total > ret.limit)
     /\ ~ret.hasPrevious

(***************************************************************************)
(* The loop of getTrendingTracks of the Spotify provider.                  *)
(***************************************************************************)
\* The step sends the search of one more term of getTrendingTracks.
TermIssued ==
  /\ req'.op = "getTrendingTracks"
  /\ req'.pc # "idle"
  /\ req'.i # req.i

\* The step ends the search of the term req.i in a failure that is skipped:
\* the search of the next term is sent and the tracks collected are kept.
TermSkipped ==
  /\ req'.op = "getTrendingTracks"
  /\ req'.pc # "idle"
  /\ req'.i = req.i + 1
  /\ req'.all = req.all

\* C24: getTrendingTracks of the Spotify provider sends the searches of its
\* terms one at a time and in the order of the list; it sends no search once
\* the tracks collected so far have reached the limit asked for; and a search
\* that fails is skipped, the terms that remain being searched for.
C24_TermsInOrderUntilLimit ==
  [][ /\ TermIssued =>
            /\ req'.i = req.i + 1
            /\ req'.i <= Len(basicSearches)
            /\ req'.calls = req'.i
            /\ Len(req'.all) < req'.limit
      /\ \A rep \in GetReplies :
            (/\ req.op = "getTrendingTracks"
             /\ req.i < Len(basicSearches)
             /\ ReplyFailed(req.op, rep)
             /\ GetReply(rep)) => TermSkipped
      /\ \A rep \in ExchangeReplies :
            (/\ req.op = "getTrendingTracks"
             /\ req.i < Len(basicSearches)
             /\ ~rep.ok
             /\ ExchangeReply(rep)) => TermSkipped ]_vars

\* C25: getTrendingTracks(limit) of the Spotify provider returns fewer than
\* limit tracks only when it has searched for every term: it does not stop
\* while the distinct track ids collected are fewer than the limit.
C25_FewerOnlyWhenAllTermsTried ==
  (/\ ret.prov = "spotify"
   /\ ret.op = "getTrendingTracks"
   /\ Len(ret.items) < ret.limit) => ret.calls = Len(basicSearches)

(***************************************************************************)
(* The music routes: what they report of the active provider.              *)
(***************************************************************************)
\* C26: once the music routes are loaded, and after any switch-mode request
\* (accepted, rejected or failed), the service type reported is that of the
\* active provider: 'spotify' exactly when the Spotify provider is active,
\* 'demo' or 'demo-fallback' exactly when the demo provider is.
C26_TypeMatchesProvider ==
  musicService # "none" =>
    /\ serviceInfo.type = "spotify" <=> musicService = "spotify"
    /\ serviceInfo.type \in {"demo", "demo-fallback"} <=> musicService = "demo"

\* A switch to Spotify has failed while the fallback was active.
C26_Witness ==
  /\ resp.route = "/switch-mode"
  /\ resp.mode = "spotify"
  /\ resp.status = 500
  /\ musicService = "demo"
  /\ serviceInfo.type = "demo-fallback"

\* C27: the demoMode flag that /health and /service-info report, and the
\* flags of /health for the live features and capabilities, are those of the
\* provider that is active, also after a switch of mode: demoMode is true
\* exactly when the demo provider is active.
C27_FlagsMatchProvider ==
  (resp.route \in {"/health", "/service-info"} /\ resp.status = 200) =>
     /\ resp.demoMode <=> musicService = "demo"
     /\ resp.route = "/health" => (resp.realTimeData <=> musicService = "spotify")

(***************************************************************************)
(* The liked songs.                                                        *)
(***************************************************************************)
\* No two entries of the list have the same id.
DistinctIds(list) ==
  \A j, h \in DOMAIN list : list[j].id = list[h].id => j = h

\* The entries of list whose id is not songId, in their order.
RECURSIVE Others(_, _)
Others(list, songId) ==
  IF list = << >> THEN << >>
  ELSE IF Head(list).id = songId THEN Others(Tail(list), songId)
  ELSE << Head(list) >> \o Others(Tail(list), songId)

\* The lists of the users other than userId are as they were.
OtherUsersKept(userId) ==
  \A u \in (DOMAIN LIKED_SONGS_FILE \cup DOMAIN LIKED_SONGS_FILE') \ {userId} :
     /\ u \in DOMAIN LIKED_SONGS_FILE
     /\ u \in DOMAIN LIKED_SONGS_FILE'
     /\ LIKED_SONGS_FILE'[u] = LIKED_SONGS_FILE[u]

\* C28: after any sequence of like-song, unlike-song and remove-song
\* requests no list of liked songs holds two songs with the same id; a like
\* of a song that is liked already leaves the lists as they were; unlike-song,
\* and remove-song on 'liked-songs', remove every entry of that id from the
\* list of the user and leave its other entries and the lists of the other
\* users as they were.
C28_LikedSongsDistinct ==
  [][ /\ \A u \in DOMAIN LIKED_SONGS_FILE' : DistinctIds(LIKED_SONGS_FILE'[u])
      /\ \A userId \in UserIds, song \in Songs :
            (/\ LikeSong(userId, song)
             /\ \E j \in DOMAIN LikedOf(LIKED_SONGS_FILE, userId) :
                   LikedOf(LIKED_SONGS_FILE, userId)[j].id = song.id)
            => LIKED_SONGS_FILE' = LIKED_SONGS_FILE
      /\ \A userId \in UserIds, songId \in SongIds :
            (/\ \/ UnlikeSong(userId, songId)
                \/ RemoveSong("liked-songs", songId, userId)
             /\ userId \in DOMAIN LIKED_SONGS_FILE)
            => /\ LIKED_SONGS_FILE'[userId] =
                     Others(LIKED_SONGS_FILE[userId], songId)
               /\ OtherUsersKept(userId) ]_vars

\* u1 likes songs 1 and 2, u2 likes song 1, and a like by u1 of song 1 under
\* another title has been answered 'Song already liked'.
C28_Witness ==
  /\ resp.route = "/like-song"
  /\ resp.message = "Song already liked"
  /\ handled.userId = "u1"
  /\ handled.songId = 1
  /\ "u1" \in DOMAIN LIKED_SONGS_FILE
  /\ "u2" \in DOMAIN LIKED_SONGS_FILE
  /\ Len(LIKED_SONGS_FILE["u1"]) = 2
  /\ Len(LIKED_SONGS_FILE["u2"]) = 1
  /\ LIKED_SONGS_FILE["u1"][1].id = 1

====
